---- MODULE Spec2Model ----
(***************************************************************************)
(* State-machine model of the security & resilience layer and the API      *)
(* facade of the KAI dashboard front-end (src/src/contracts/config.js):    *)
(* the sliding-window rate limiter (checkRateLimit), the resilient fetch   *)
(* wrapper (secureFetch), the input sanitizer (sanitizeInput) and          *)
(* api.createAlert.                                                        *)
(*                                                                         *)
(* Strings are modelled as sequences of one-character strings, so that the *)
(* sanitizer and parseInt are computed character by character.  The clock  *)
(* counts milliseconds from an arbitrary origin.                           *)
(*                                                                         *)
(* Specifications:                                                         *)
(*   SpecRateLimit  checkRateLimit called while the clock advances         *)
(*   SpecFetch      one secureFetch call with any retry budget             *)
(*   SpecAlert      one api.createAlert call over secureFetch              *)
(***************************************************************************)
EXTENDS Integers, Sequences, FiniteSets, TLC

VARIABLES
    now,          \* the value Date.now() returns (ms)
    requestLog,   \* const requestLog = []  (timestamps of admitted calls)
    admitted,     \* history: every timestamp ever pushed by checkRateLimit
    lastCheck,    \* history: what the latest checkRateLimit call saw and did
    ticks,        \* number of times the clock has advanced (rate-limiter runs)
    burst,        \* number of checkRateLimit calls made at the current instant
    pc,           \* position of the secureFetch call
    retries,      \* the `retries` parameter of the current secureFetch frame
    budget,       \* the `retries` argument the outermost call was given
    request,      \* url / method / body handed to fetch
    timerArmed,   \* the 15000 ms abort timer is pending
    attemptStart, \* clock value when the current fetch was issued
    delay,        \* argument of the pending backoff setTimeout
    error,        \* the error caught last / the error the call failed with
    result,       \* what the call returned
    netCalls,     \* history: number of fetch() calls issued
    failures,     \* history: number of attempts that ended in the catch block
    seen,         \* history: the kinds of the errors caught so far
    waitLog,      \* history: the backoff delays waited, in order
    startedAt,    \* clock value when secureFetch was invoked
    bodyTime,     \* total time spent in response.json()
    apiCall,      \* the facade operation in progress and its argument
    sanitizeCall, \* a direct sanitizeInput call: its argument and its result
    hasProvider,  \* typeof window.ethereum !== 'undefined'
    account,      \* useWallet: const [account, setAccount]
    chainId,      \* useWallet: const [chainId, setChainId]
    isConnecting, \* useWallet: const [isConnecting, setIsConnecting]
    walletError,  \* useWallet: const [error, setError]
    listening,    \* the two handlers of the effect are registered
    accountsQuery, \* the eth_accounts request of the effect
    chainQuery,   \* the eth_chainId request of the effect
    connects,     \* number of eth_requestAccounts requests pending
    switchCall,   \* the switchNetwork call in progress or last returned
    lastConnect,  \* history: what the connect call that returned last left
    deployed,     \* the names whose address in CONTRACT_ADDRESSES is filled in
    hookState,    \* loading and error of each contract hook
    task,         \* the hook operation (or getContract call) in progress
    unmounted,    \* the cleanup of the useWallet effect has run
    socket,       \* let socket: the instances created, the events listened to
    dash,         \* the Dashboard component: its state and its refresh runs
    running,      \* the hook operations in flight on one instance of each hook
    walletPage,   \* the Wallet page: its state and its connectWallet run
    alertsPage,   \* the Alerts page: its state and its handleSubmit run
    unitsCall     \* a parseUnits / formatUnits round trip: input and results

rlVars    == <<requestLog, admitted, lastCheck>>
driveVars == <<ticks, burst>>
fetchVars == <<pc, retries, budget, request, timerArmed, attemptStart, delay,
               error, result, netCalls, failures, seen, waitLog, startedAt,
               bodyTime>>
sanVars   == <<sanitizeCall>>
walletVars == <<account, chainId, isConnecting, walletError, listening,
                accountsQuery, chainQuery, connects, switchCall, lastConnect>>
hookVars  == <<deployed, hookState, task>>
pageVars  == <<unmounted, socket, dash, running, walletPage, alertsPage,
               unitsCall>>
appVars   == <<sanVars, hasProvider, walletVars, hookVars, pageVars>>
netVars   == <<now, rlVars, driveVars, fetchVars, apiCall>>
outsideWallet == <<netVars, sanVars, hasProvider, hookVars, pageVars>>
outsideHooks  == <<netVars, sanVars, hasProvider, walletVars, pageVars>>
vars      == <<now, rlVars, driveVars, fetchVars, apiCall, appVars>>

-----------------------------------------------------------------------------
(* Program constants                                                       *)

MAX_RETRIES             == 3
RETRY_DELAY             == 1000
RATE_LIMIT_WINDOW       == 60000
MAX_REQUESTS_PER_WINDOW == 100
FETCH_TIMEOUT           == 15000
SANITIZE_MAX_LENGTH     == 1000
RISK_MIN                == 0
RISK_MAX                == 100

(* Bounds of the model                                                     *)

MaxTicks  == 3     \* clock advances in a rate-limiter run
Burst     == 50    \* calls arrive in groups of Burst at one instant
MaxBudget == 4     \* retry budgets 0..MaxBudget are passed to secureFetch

Min(a, b) == IF a < b THEN a ELSE b
Max(a, b) == IF a > b THEN a ELSE b

-----------------------------------------------------------------------------
(* checkRateLimit                                                          *)

\* recentRequests = requestLog.filter(t => t > windowStart)
RecentRequestsKeepBoundary(log, t) ==
    SelectSeq(log, LAMBDA x : x >= t - RATE_LIMIT_WINDOW)

RecentRequests(log, t) ==
    SelectSeq(log, LAMBDA x : x > t - RATE_LIMIT_WINDOW)

\* if (recentRequests.length >= MAX_REQUESTS_PER_WINDOW) throw ...
RateLimitedOffByOne(log, t) ==
    Len(RecentRequests(log, t)) > MAX_REQUESTS_PER_WINDOW

RateLimited(log, t) ==
    Len(RecentRequests(log, t)) >= MAX_REQUESTS_PER_WINDOW

\* requestLog after the call: pruned, and with `now` pushed unless it threw
LogAfterCheckAlwaysPush(log, t) ==
    Append(RecentRequests(log, t), t)

LogAfterCheck(log, t) ==
    IF RateLimited(log, t)
    THEN RecentRequests(log, t)
    ELSE Append(RecentRequests(log, t), t)

\* number of admitted timestamps in the trailing window (t - W, t]
InWindow(hist, t) ==
    Cardinality({i \in DOMAIN hist :
                    hist[i] > t - RATE_LIMIT_WINDOW /\ hist[i] <= t})

\* One call of checkRateLimit() when Date.now() returns t.
CheckRateLimit(t) ==
    /\ requestLog' = LogAfterCheck(requestLog, t)
    /\ admitted' = IF Len(LogAfterCheck(requestLog, t))
                         > Len(RecentRequests(requestLog, t))
                   THEN Append(admitted, t) ELSE admitted
    /\ lastCheck' = [result   |-> IF RateLimited(requestLog, t)
                                  THEN "rejected" ELSE "admitted",
                     at       |-> t,
                     before   |-> requestLog,
                     inWindow |-> InWindow(admitted, t)]

-----------------------------------------------------------------------------
(* Errors.  A message is a sequence of text pieces; includes() looks for   *)
(* one piece.                                                              *)

\* new Error('Rate limit exceeded. Please wait.')
RateLimitError ==
    [kind |-> "RateLimit", name |-> "Error",
     message |-> <<"Rate limit", " exceeded. Please wait.">>]

\* new Error(`HTTP ${response.status}`)
HttpError(status) ==
    [kind |-> "Http", name |-> "Error",
     message |-> <<"HTTP ", ToString(status)>>]

\* what fetch rejects with once controller.abort() has run
AbortError ==
    [kind |-> "Abort", name |-> "AbortError",
     message |-> <<"The operation was aborted.">>]

\* what fetch rejects with when the network fails
NetworkError ==
    [kind |-> "Network", name |-> "TypeError",
     message |-> <<"Failed to fetch">>]

\* what response.json() rejects with; engines quote the start of the body
ParseError(quoted) ==
    [kind |-> "Parse", name |-> "SyntaxError",
     message |-> <<"Unexpected token in JSON: ">> \o quoted]

Includes(message, piece) == \E i \in DOMAIN message : message[i] = piece

NoError == [kind |-> "none", name |-> "none", message |-> <<>>]

Statuses   == {200, 429, 500}          \* response.status values served
NetTimes   == {200}                    \* ms until fetch settles, below the deadline
BodyTimes  == {5, 20000}               \* ms response.json() takes
BodyStarts == {<<>>, <<"Rate limit">>} \* start of a body that is not JSON

\* response.ok
ResponseOk(status) == status >= 200 /\ status <= 299

-----------------------------------------------------------------------------
(* secureFetch                                                             *)

\* RETRY_DELAY * (MAX_RETRIES - retries + 1)
BackoffDelay(r) == RETRY_DELAY * (MAX_RETRIES - r + 1)

\* retries > 0 && !error.message.includes('Rate limit')
ShouldRetryOnce(r, e) ==
    r = MAX_RETRIES /\ ~Includes(e.message, "Rate limit")

ShouldRetryUnlessAborted(r, e) ==
    r > 0 /\ ~Includes(e.message, "Rate limit") /\ e.name # "AbortError"

ShouldRetry(r, e) == r > 0 /\ ~Includes(e.message, "Rate limit")

\* setTimeout runs the callback at once when the delay is not positive
TimerWait(d) == Max(0, d)

\* The catch block, entered with error e.
Catch(e) ==
    /\ timerArmed' = FALSE
    /\ error' = e
    /\ failures' = failures + 1
    /\ seen' = seen \cup {e.kind}
    /\ IF ShouldRetry(retries, e)
       THEN /\ pc' = "backoff"
            /\ delay' = BackoffDelay(retries)
       ELSE /\ pc' = "failed"
            /\ UNCHANGED delay
    /\ UNCHANGED <<rlVars, retries, attemptStart, netCalls, waitLog>>

\* The synchronous start of a secureFetch(url, options, r) frame at time t:
\* checkRateLimit() outside the try block, then the timer and the fetch.
EnterRetriesRejection(r, t) ==
    /\ CheckRateLimit(t)
    /\ retries' = r
    /\ IF RateLimited(requestLog, t)
       THEN /\ pc' = IF r > 0 THEN "backoff" ELSE "failed"
            /\ error' = RateLimitError
            /\ UNCHANGED <<timerArmed, attemptStart, netCalls>>
       ELSE /\ pc' = "fetching"
            /\ timerArmed' = TRUE
            /\ attemptStart' = t
            /\ netCalls' = netCalls + 1
            /\ UNCHANGED error

Enter(r, t) ==
    /\ CheckRateLimit(t)
    /\ retries' = r
    /\ IF RateLimited(requestLog, t)
       THEN /\ pc' = "failed"
            /\ error' = RateLimitError
            /\ UNCHANGED <<timerArmed, attemptStart, netCalls>>
       ELSE /\ pc' = "fetching"
            /\ timerArmed' = TRUE
            /\ attemptStart' = t
            /\ netCalls' = netCalls + 1
            /\ UNCHANGED error

\* secureFetch(url, options, r) is called: what it does to the network layer
Call(req, r) ==
    /\ request' = req
    /\ budget' = r
    /\ startedAt' = now
    /\ Enter(r, now)
    /\ UNCHANGED <<now, driveVars, delay, result, failures, seen, waitLog,
                   bodyTime>>

\* secureFetch(url, options, r) called from outside.
Invoke(req, r) ==
    /\ pc = "idle"
    /\ Call(req, r)
    /\ UNCHANGED appVars

\* fetch resolves with a response before the deadline.
FetchResponds(d, status) ==
    /\ pc = "fetching"
    /\ now + d < attemptStart + FETCH_TIMEOUT
    /\ now' = now + d
    /\ IF ResponseOk(status)
       THEN /\ pc' = "reading"
            /\ timerArmed' = FALSE
            /\ UNCHANGED <<rlVars, retries, attemptStart, delay, error,
                           netCalls, failures, seen, waitLog>>
       ELSE Catch(HttpError(status))
    /\ UNCHANGED <<driveVars, budget, request, result, startedAt, bodyTime,
                   apiCall, appVars>>

\* fetch rejects with a network error before the deadline.
FetchRejects(d) ==
    /\ pc = "fetching"
    /\ now + d < attemptStart + FETCH_TIMEOUT
    /\ now' = now + d
    /\ Catch(NetworkError)
    /\ UNCHANGED <<driveVars, budget, request, result, startedAt, bodyTime,
                   apiCall, appVars>>

\* The 15000 ms timer fires: controller.abort(), and fetch rejects.
FetchTimesOutLate ==
    /\ pc = "fetching"
    /\ timerArmed
    /\ now' = attemptStart + 10 * FETCH_TIMEOUT
    /\ Catch(AbortError)
    /\ UNCHANGED <<driveVars, budget, request, result, startedAt, bodyTime,
                   apiCall, appVars>>

FetchTimesOut ==
    /\ pc = "fetching"
    /\ timerArmed
    /\ now' = attemptStart + FETCH_TIMEOUT
    /\ Catch(AbortError)
    /\ UNCHANGED <<driveVars, budget, request, result, startedAt, bodyTime,
                   apiCall, appVars>>

\* response.json() resolves: the call returns the parsed body.
JsonResolves(d) ==
    /\ pc = "reading"
    /\ now' = now + d
    /\ bodyTime' = bodyTime + d
    /\ pc' = "returned"
    /\ result' = "parsed body"
    /\ UNCHANGED <<rlVars, driveVars, retries, budget, request, timerArmed,
                   attemptStart, delay, error, netCalls, failures, seen,
                   waitLog, startedAt, apiCall, appVars>>

\* response.json() rejects: the body is not JSON.
JsonRejects(d, quoted) ==
    /\ pc = "reading"
    /\ now' = now + d
    /\ bodyTime' = bodyTime + d
    /\ Catch(ParseError(quoted))
    /\ UNCHANGED <<driveVars, budget, request, result, startedAt, apiCall,
                   appVars>>

BackoffElapsesUnchecked ==
    /\ pc = "backoff"
    /\ now' = now + TimerWait(delay)
    /\ waitLog' = Append(waitLog, TimerWait(delay))
    /\ retries' = retries - 1
    /\ pc' = "fetching"
    /\ timerArmed' = TRUE
    /\ attemptStart' = now + TimerWait(delay)
    /\ netCalls' = netCalls + 1
    /\ UNCHANGED <<rlVars, error>>
    /\ UNCHANGED <<driveVars, budget, request, delay, result, failures, seen,
                   startedAt, bodyTime, apiCall, appVars>>

\* The backoff timer fires: return secureFetch(url, options, retries - 1).
BackoffElapses ==
    /\ pc = "backoff"
    /\ now' = now + TimerWait(delay)
    /\ waitLog' = Append(waitLog, TimerWait(delay))
    /\ Enter(retries - 1, now + TimerWait(delay))
    /\ UNCHANGED <<driveVars, budget, request, delay, result, failures, seen,
                   startedAt, bodyTime, apiCall, appVars>>

FetchSteps ==
    \/ \E d \in NetTimes, status \in Statuses : FetchResponds(d, status)
    \/ \E d \in NetTimes : FetchRejects(d)
    \/ FetchTimesOut
    \/ \E d \in BodyTimes : JsonResolves(d)
    \/ \E d \in BodyTimes, quoted \in BodyStarts : JsonRejects(d, quoted)
    \/ BackoffElapses

-----------------------------------------------------------------------------
(* Initial values                                                          *)

Filled(n, t) == [i \in 1..n |-> t]

NoCheck == [result |-> "none", at |-> 0, before |-> <<>>, inWindow |-> 0]

NoRequest == [url |-> "", method |-> "", body |-> <<>>]

FetchIdle ==
    /\ pc = "idle"
    /\ retries = 0
    /\ budget = 0
    /\ request = NoRequest
    /\ timerArmed = FALSE
    /\ attemptStart = 0
    /\ delay = 0
    /\ error = NoError
    /\ result = "none"
    /\ netCalls = 0
    /\ failures = 0
    /\ seen = {}
    /\ waitLog = <<>>
    /\ startedAt = 0
    /\ bodyTime = 0
    /\ apiCall = [op |-> "none"]

NoSanitize == [state |-> "none"]

\* The parts of the application a specification leaves at rest.
SanitizeIdle == sanitizeCall = NoSanitize

NoSwitch == [state |-> "none"]

NoConnect == [returned |-> "none"]

\* useWallet as useState leaves it, before its effect has run
WalletUnmounted ==
    /\ account = [t |-> "null"]
    /\ chainId = [t |-> "null"]
    /\ isConnecting = FALSE
    /\ walletError = [t |-> "null"]
    /\ listening = FALSE
    /\ accountsQuery = "none"
    /\ chainQuery = "none"
    /\ connects = 0
    /\ switchCall = NoSwitch
    /\ lastConnect = NoConnect

WalletIdle == hasProvider = FALSE /\ WalletUnmounted

Hooks == {"token", "revenue", "staking", "governance"}

NoTask == [state |-> "none"]

\* the hooks as useState leaves them, no operation called
HooksAtRest ==
    /\ hookState = [h \in Hooks |-> [loading |-> FALSE,
                                      error |-> [t |-> "null"]]]
    /\ task = NoTask

\* CONTRACT_ADDRESSES as the repository has it: every address is ''
HooksIdle == deployed = {} /\ HooksAtRest

NoSocket == [instances |-> 0, events |-> {}]

NoDashboard == [phase |-> "none"]

NoPage == [pc |-> "none"]

NoUnits == [state |-> "none"]

\* the components of the pages before any of them is rendered
PagesIdle ==
    /\ unmounted = FALSE
    /\ socket = NoSocket
    /\ dash = NoDashboard
    /\ running = {}
    /\ walletPage = NoPage
    /\ alertsPage = NoPage
    /\ unitsCall = NoUnits

AppIdle == SanitizeIdle /\ WalletIdle /\ HooksIdle /\ PagesIdle

-----------------------------------------------------------------------------
(* The rate limiter on its own: calls of checkRateLimit, Burst at a time,  *)
(* while the clock advances.                                               *)

ClockSteps == {1, RATE_LIMIT_WINDOW - 1}

RLCall ==
    /\ burst < 2 * Burst
    /\ CheckRateLimit(now)
    /\ burst' = burst + 1
    /\ UNCHANGED <<now, ticks, fetchVars, apiCall, appVars>>

RLTick(d) ==
    /\ ticks < MaxTicks
    /\ burst \in {0, Burst, 2 * Burst}
    /\ now' = now + d
    /\ ticks' = ticks + 1
    /\ burst' = 0
    /\ UNCHANGED <<rlVars, fetchVars, apiCall, appVars>>

InitRateLimit ==
    /\ now = 0
    /\ requestLog = <<>>
    /\ admitted = <<>>
    /\ lastCheck = NoCheck
    /\ ticks = 0
    /\ burst = 0
    /\ FetchIdle
    /\ AppIdle

NextRateLimit ==
    \/ RLCall
    \/ \E d \in ClockSteps : RLTick(d)

SpecRateLimit == InitRateLimit /\ [][NextRateLimit]_vars

-----------------------------------------------------------------------------
(* One secureFetch call, with any retry budget, on a rate limiter that     *)
(* earlier calls have left empty, one short of the ceiling, or full.       *)

InitialLogs ==
    {<<>>, Filled(MAX_REQUESTS_PER_WINDOW - 1, 0),
     Filled(MAX_REQUESTS_PER_WINDOW, 0)}

PlainRequest == [url |-> "/health", method |-> "GET", body |-> <<>>]

SecureFetchCall(r) ==
    /\ Invoke(PlainRequest, r)
    /\ UNCHANGED apiCall

InitFetch ==
    /\ now = 1000
    /\ requestLog \in InitialLogs
    /\ admitted = requestLog
    /\ lastCheck = NoCheck
    /\ ticks = 0
    /\ burst = 0
    /\ FetchIdle
    /\ AppIdle

NextFetch ==
    \/ \E r \in 0..MaxBudget : SecureFetchCall(r)
    \/ FetchSteps

SpecFetch == InitFetch /\ [][NextFetch]_vars

-----------------------------------------------------------------------------
(* JavaScript values and text.  A value is a record tagged with its type;  *)
(* a string carries its characters, a number its form: an integer, a       *)
(* fraction i.f, d * 10^e with e >= 21, NaN or Infinity.                   *)

Str(chars)  == [t |-> "string", s |-> chars]
Num(n)      == [t |-> "number", form |-> "int", n |-> n]
Frac(i, f)  == [t |-> "number", form |-> "frac", n |-> i, f |-> f]
Exp(d, e)   == [t |-> "number", form |-> "exp", n |-> d, e |-> e]
NaN         == [t |-> "number", form |-> "NaN"]
Infinity    == [t |-> "number", form |-> "Infinity"]
Undefined   == [t |-> "undefined"]
Null        == [t |-> "null"]

UpperCase == <<"A","B","C","D","E","F","G","H","I","J","K","L","M",
               "N","O","P","Q","R","S","T","U","V","W","X","Y","Z">>
LowerCase == <<"a","b","c","d","e","f","g","h","i","j","k","l","m",
               "n","o","p","q","r","s","t","u","v","w","x","y","z">>
DigitChars == <<"0","1","2","3","4","5","6","7","8","9">>
HexChars   == DigitChars \o <<"a","b","c","d","e","f">>

Range(seq) == {seq[i] : i \in DOMAIN seq}

IndexOf(seq, c) == CHOOSE i \in DOMAIN seq : seq[i] = c

\* the lower-case form of a character, as the i flag compares them
ToLowerChar(c) ==
    IF c \in Range(UpperCase) THEN LowerCase[IndexOf(UpperCase, c)] ELSE c

\* \w
IsWordChar(c) ==
    c \in Range(UpperCase) \cup Range(LowerCase) \cup Range(DigitChars) \cup {"_"}

\* white space as trim() and parseInt see it
IsSpace(c) == c \in {" ", "\t", "\n", "\r"}

\* the pattern pat (lower case) matches s at its start, ignoring case
StartsWithIgnoreCase(s, pat) ==
    /\ Len(s) >= Len(pat)
    /\ \A k \in DOMAIN pat : ToLowerChar(s[k]) = pat[k]

Drop(s, n) == SubSeq(s, n + 1, Len(s))

-----------------------------------------------------------------------------
(* sanitizeInput                                                           *)

RemoveOpeningBrackets(s) == SelectSeq(s, LAMBDA c : c # "<")

\* .replace(/[<>]/g, '')
RemoveAngleBrackets(s) == SelectSeq(s, LAMBDA c : c \notin {"<", ">"})

\* .replace(/javascript:/gi, ''): one pass, left to right
JavascriptScheme == <<"j","a","v","a","s","c","r","i","p","t",":">>

\* the least member of a non-empty set of positions
Least(S) == CHOOSE i \in S : \A j \in S : i <= j

\* the position of the leftmost match of the scheme in s, 0 when there is none
FirstScheme(s) ==
    LET starts == {i \in DOMAIN s :
                      StartsWithIgnoreCase(Drop(s, i - 1), JavascriptScheme)}
    IN  IF starts = {} THEN 0 ELSE Least(starts)

\* the text up to the leftmost match is kept, the match is dropped, and the
\* search goes on behind it
RECURSIVE RemoveJavascript(_)
RemoveJavascript(s) ==
    LET i == FirstScheme(s) IN
    IF i = 0 THEN s
    ELSE SubSeq(s, 1, i - 1)
         \o RemoveJavascript(Drop(s, i - 1 + Len(JavascriptScheme)))

\* length of the longest run of word characters at the start of s
RECURSIVE WordRun(_)
WordRun(s) ==
    IF s # <<>> /\ IsWordChar(Head(s)) THEN 1 + WordRun(Tail(s)) ELSE 0

\* length of the match of /on\w+=/i at the start of s, 0 when there is none;
\* "=" is no word character, so it must follow the whole run of them
HandlerMatch(s) ==
    IF StartsWithIgnoreCase(s, <<"o", "n">>)
    THEN LET w == WordRun(Drop(s, 2)) IN
         IF w >= 1 /\ Len(s) >= w + 3 /\ s[w + 3] = "=" THEN w + 3 ELSE 0
    ELSE 0

\* .replace(/on\w+=/gi, ''): one pass, left to right
FirstHandler(s) ==
    LET starts == {i \in DOMAIN s : HandlerMatch(Drop(s, i - 1)) > 0}
    IN  IF starts = {} THEN 0 ELSE Least(starts)

RECURSIVE RemoveHandlers(_)
RemoveHandlers(s) ==
    LET i == FirstHandler(s) IN
    IF i = 0 THEN s
    ELSE SubSeq(s, 1, i - 1)
         \o RemoveHandlers(Drop(s, i - 1 + HandlerMatch(Drop(s, i - 1))))

RECURSIVE TrimStart(_)
TrimStart(s) ==
    IF s # <<>> /\ IsSpace(Head(s)) THEN TrimStart(Tail(s)) ELSE s

RECURSIVE TrimEnd(_)
TrimEnd(s) ==
    IF s # <<>> /\ IsSpace(s[Len(s)])
    THEN TrimEnd(SubSeq(s, 1, Len(s) - 1)) ELSE s

\* .trim()
Trim(s) == TrimEnd(TrimStart(s))

\* .slice(0, n)
Slice(s, n) == SubSeq(s, 1, Min(Len(s), n))

sanitizeInputNoTrim(input) ==
    IF input.t # "string" THEN input
    ELSE Str(Slice(RemoveHandlers(RemoveJavascript(
                 RemoveAngleBrackets(input.s))), SANITIZE_MAX_LENGTH))

sanitizeInput(input) ==
    IF input.t # "string" THEN input
    ELSE Str(Slice(Trim(RemoveHandlers(RemoveJavascript(
                 RemoveAngleBrackets(input.s)))), SANITIZE_MAX_LENGTH))

\* The network layer at rest: no request made, the clock at its origin.
NetIdle ==
    /\ now = 0
    /\ requestLog = <<>>
    /\ admitted = <<>>
    /\ lastCheck = NoCheck
    /\ ticks = 0
    /\ burst = 0
    /\ FetchIdle

Repeat(c, n) == [i \in 1..n |-> c]

\* Fragments the three patterns of the sanitizer react to, whole and split.
Pieces ==
    {<<"<">>, <<">">>, <<" ">>, <<"a">>, <<"=">>,
     <<"J","a","v","a">>, <<"s","c","r","i","p","t",":">>,
     <<"j","a","v","a","S","C","R","I","P","T",":">>,
     <<"O","n">>, <<"o","n","c","l","i","c","k","=">>}

MaxPieces == 3

RECURSIVE Concatenations(_)
Concatenations(n) ==
    IF n = 0 THEN {<<>>}
    ELSE LET shorter == Concatenations(n - 1) IN
         shorter \cup {s \o p : s \in shorter, p \in Pieces}

\* Texts around the truncation length.
LongTexts ==
    {Repeat("a", SANITIZE_MAX_LENGTH),
     Repeat("a", SANITIZE_MAX_LENGTH + 1),
     <<" ", " ">> \o Repeat("a", SANITIZE_MAX_LENGTH - 1) \o <<"b", "c">>,
     Repeat("a", SANITIZE_MAX_LENGTH - 1) \o <<"<", "b", ">", "c">>,
     Repeat("a", SANITIZE_MAX_LENGTH - 1) \o <<" ", "b">>}

SanitizeInputs ==
    {Str(s) : s \in Concatenations(MaxPieces) \cup LongTexts}
    \cup {Num(7), NaN, Undefined, Null}

\* sanitizeInput(input) is called ...
SanitizeCalled(input) ==
    /\ sanitizeCall.state = "none"
    /\ sanitizeCall' = [state |-> "called", input |-> input]
    /\ UNCHANGED <<netVars, hasProvider, walletVars, hookVars, pageVars>>

\* ... and returns.
SanitizeReturns ==
    /\ sanitizeCall.state = "called"
    /\ sanitizeCall' = [state |-> "returned", input |-> sanitizeCall.input,
                        output |-> sanitizeInput(sanitizeCall.input)]
    /\ UNCHANGED <<netVars, hasProvider, walletVars, hookVars, pageVars>>

InitSanitize ==
    /\ NetIdle
    /\ AppIdle

NextSanitize ==
    \/ \E input \in SanitizeInputs : SanitizeCalled(input)
    \/ SanitizeReturns

SpecSanitize == InitSanitize /\ [][NextSanitize]_vars

-----------------------------------------------------------------------------
(* parseInt and the clamp of api.createAlert                               *)

\* decimal digits of a natural number
RECURSIVE NatToChars(_)
NatToChars(n) ==
    IF n < 10 THEN <<DigitChars[n + 1]>>
    ELSE NatToChars(n \div 10) \o <<DigitChars[(n % 10) + 1]>>

\* ToString of a value, which parseInt applies to its argument first
ToStringJS(v) ==
    CASE v.t = "string"    -> v.s
      [] v.t = "undefined" -> <<"u","n","d","e","f","i","n","e","d">>
      [] v.t = "null"      -> <<"n","u","l","l">>
      [] v.t = "number" ->
            CASE v.form = "int" ->
                    IF v.n < 0 THEN <<"-">> \o NatToChars(-v.n)
                    ELSE NatToChars(v.n)
              [] v.form = "frac" -> NatToChars(v.n) \o <<".">> \o v.f
              [] v.form = "exp" ->
                    NatToChars(v.n) \o <<"e", "+">> \o NatToChars(v.e)
              [] v.form = "NaN" -> <<"N","a","N">>
              [] v.form = "Infinity" -> <<"I","n","f","i","n","i","t","y">>

\* the digits of the given radix at the start of s
RECURSIVE DigitRun(_, _)
DigitRun(s, radix) ==
    IF /\ s # <<>>
       /\ ToLowerChar(Head(s)) \in Range(HexChars)
       /\ IndexOf(HexChars, ToLowerChar(Head(s))) <= radix
    THEN 1 + DigitRun(Tail(s), radix) ELSE 0

\* the number the digits denote in the given radix
RECURSIVE DigitsValue(_, _)
DigitsValue(s, radix) ==
    IF s = <<>> THEN 0
    ELSE DigitsValue(SubSeq(s, 1, Len(s) - 1), radix) * radix
           + IndexOf(HexChars, ToLowerChar(s[Len(s)])) - 1

\* parseInt(v), no radix given: leading white space, a sign, 0x for radix 16,
\* then the longest run of digits; NaN when that run is empty
parseInt(v) ==
    LET str      == TrimStart(ToStringJS(v))
        negative == str # <<>> /\ Head(str) = "-"
        unsigned == IF str # <<>> /\ Head(str) \in {"+", "-"}
                    THEN Tail(str) ELSE str
        hex      == StartsWithIgnoreCase(unsigned, <<"0", "x">>)
        radix    == IF hex THEN 16 ELSE 10
        rest     == IF hex THEN Drop(unsigned, 2) ELSE unsigned
        digits   == SubSeq(rest, 1, DigitRun(rest, radix))
    IN  IF digits = <<>> THEN NaN
        ELSE Num((IF negative THEN -1 ELSE 1) * DigitsValue(digits, radix))

\* x || 0 for a number x: NaN and 0 are falsy
OrZero(v) == IF v.form = "int" THEN v.n ELSE 0

\* Math.min(100, Math.max(0, parseInt(riskScore) || 0))
ClampRisk(v) == Min(RISK_MAX, Max(RISK_MIN, OrZero(parseInt(v))))

-----------------------------------------------------------------------------
(* api.createAlert                                                         *)

\* data.name: undefined when the object has no such property
Prop(data, name) == IF name \in DOMAIN data THEN data[name] ELSE Undefined

\* JSON.stringify of an object, as the list of members the text holds:
\* a member whose value is undefined is left out
JsonStringify(members) ==
    SelectSeq(members, LAMBDA m : m[2] # Undefined)

\* const sanitized = {disasterType: ..., region: ..., riskScore: ...}
SanitizedAlert(data) ==
    <<  <<"disasterType", sanitizeInput(Prop(data, "disasterType"))>>,
        <<"region", sanitizeInput(Prop(data, "region"))>>,
        <<"riskScore", Num(ClampRisk(Prop(data, "riskScore")))>>  >>

AlertRequest(data) ==
    [url    |-> "/disaster/alerts",
     method |-> "POST",
     body   |-> JsonStringify(SanitizedAlert(data))]

\* api.createAlert(data)
ApiCreateAlert(data) ==
    /\ apiCall' = [op |-> "createAlert", data |-> data]
    /\ Invoke(AlertRequest(data), MAX_RETRIES)

\* api.createAlert(data) called by a component that goes on afterwards
CreateAlert(data) ==
    /\ apiCall' = [op |-> "createAlert", data |-> data]
    /\ Call(AlertRequest(data), MAX_RETRIES)

(* Inputs *)

ScriptFlood ==
    <<"<","s","c","r","i","p","t",">","f","l","o","o","d",
      "<","/","s","c","r","i","p","t",">">>
Flood       == <<"f","l","o","o","d">>
PaddedLagos == <<" "," ","L","a","g","o","s"," "," ">>
Lagos       == <<"L","a","g","o","s">>

TextInputs ==
    {Str(ScriptFlood), Str(Flood), Str(PaddedLagos), Str(Lagos), Str(<<>>),
     Str(<<"j","a","v","a","S","c","r","i","p","t",":","x">>),
     Str(<<"a"," ","O","n","C","l","i","c","k","=","b">>),
     Str(<<"o","n","=","1">>),
     Num(7), Undefined, Null}

RiskInputs ==
    {Num(-5), Num(-1), Num(0), Num(1), Num(50), Num(99), Num(100), Num(101),
     Num(150), Num(1000),
     Str(<<"4","2">>), Str(<<"-","3">>), Str(<<"1","5","0">>),
     Str(<<" ","4","2">>), Str(<<"+","7">>), Str(<<"-","0">>),
     Str(<<"1","e","3">>), Str(<<"0","x","1","A">>), Str(<<"0","x","7","F">>),
     Str(<<"1","2","a","b","c">>), Str(<<"3",".","7">>),
     Str(<<"a","b","c">>), Str(<<>>),
     Frac(3, <<"7">>), Exp(1, 21), NaN, Infinity, Undefined, Null}

ScenarioAlert ==
    [disasterType |-> Str(ScriptFlood), region |-> Str(PaddedLagos),
     riskScore |-> Num(150)]

AlertInputs ==
    {ScenarioAlert}
    \cup {[disasterType |-> Str(Flood), region |-> Str(Lagos), riskScore |-> r] :
             r \in RiskInputs}
    \cup {[disasterType |-> d, region |-> Str(Lagos), riskScore |-> Num(50)] :
             d \in TextInputs}
    \cup {[disasterType |-> Str(Flood), region |-> g, riskScore |-> Num(50)] :
             g \in TextInputs}
    \cup {[region |-> Str(Lagos)]}

InitAlert ==
    /\ now = 1000
    /\ requestLog \in {<<>>, Filled(MAX_REQUESTS_PER_WINDOW, 0)}
    /\ admitted = requestLog
    /\ lastCheck = NoCheck
    /\ ticks = 0
    /\ burst = 0
    /\ FetchIdle
    /\ AppIdle

NextAlert ==
    \/ \E data \in AlertInputs : ApiCreateAlert(data)
    \/ FetchSteps

SpecAlert == InitAlert /\ [][NextAlert]_vars

-----------------------------------------------------------------------------
(* The api facade: every operation of `api`, one call at a time.           *)

\* a secureFetch(url) call with no options: fetch defaults to GET
GetRequest(url) == [url |-> url, method |-> "GET", body |-> <<>>]

\* api.getHealth, api.getTokenInfo, api.getContracts, api.getStats
PlainPaths ==
    [getHealth |-> "/health", getTokenInfo |-> "/token/info",
     getContracts |-> "/contracts", getStats |-> "/stats"]

ApiGet(op) ==
    /\ apiCall' = [op |-> op]
    /\ Invoke(GetRequest(PlainPaths[op]), MAX_RETRIES)

\* The two hexadecimal digits of the bytes that the serializer of
\* URLSearchParams escapes.
PercentCodes ==
    [c \in {"\t", "\n", "\r", "!", "\"", "#", "$", "%", "&", "'", "(", ")",
            "+", ",", "/", ":", ";", "<", "=", ">", "?", "@"} |->
        CASE c = "\t" -> <<"0", "9">> [] c = "\n" -> <<"0", "A">>
          [] c = "\r" -> <<"0", "D">> [] c = "!"  -> <<"2", "1">>
          [] c = "\"" -> <<"2", "2">> [] c = "#"  -> <<"2", "3">>
          [] c = "$"  -> <<"2", "4">> [] c = "%"  -> <<"2", "5">>
          [] c = "&"  -> <<"2", "6">> [] c = "'"  -> <<"2", "7">>
          [] c = "("  -> <<"2", "8">> [] c = ")"  -> <<"2", "9">>
          [] c = "+"  -> <<"2", "B">> [] c = ","  -> <<"2", "C">>
          [] c = "/"  -> <<"2", "F">> [] c = ":"  -> <<"3", "A">>
          [] c = ";"  -> <<"3", "B">> [] c = "<"  -> <<"3", "C">>
          [] c = "="  -> <<"3", "D">> [] c = ">"  -> <<"3", "E">>
          [] c = "?"  -> <<"3", "F">> [] c = "@"  -> <<"4", "0">>]

\* application/x-www-form-urlencoded: letters, digits and * - . _ stay, a
\* space becomes +, any other character becomes % and its code
RECURSIVE UrlEncode(_)
UrlEncode(s) ==
    IF s = <<>> THEN <<>>
    ELSE (IF IsWordChar(Head(s)) \/ Head(s) \in {"*", "-", "."}
          THEN <<Head(s)>>
          ELSE IF Head(s) = " " THEN <<"+">>
          ELSE <<"%">> \o PercentCodes[Head(s)])
         \o UrlEncode(Tail(s))

\* new URLSearchParams(params).toString(), as the list of name=value pairs:
\* every value is converted to a string and encoded
SearchParams(params) ==
    [i \in DOMAIN params |->
        <<params[i][1], UrlEncode(ToStringJS(params[i][2]))>>]

AlertsRequest(params) ==
    [url    |-> "/disaster/alerts?",
     query  |-> SearchParams(params),
     method |-> "GET",
     body   |-> <<>>]

\* api.getAlerts(params) called by a component that goes on afterwards
GetAlerts(params) ==
    /\ apiCall' = [op |-> "getAlerts", params |-> params]
    /\ Call(AlertsRequest(params), MAX_RETRIES)

\* api.getAlerts(params)
ApiGetAlerts(params) ==
    /\ apiCall' = [op |-> "getAlerts", params |-> params]
    /\ Invoke(AlertsRequest(params), MAX_RETRIES)

AllHex(s) == \A i \in DOMAIN s : ToLowerChar(s[i]) \in Range(HexChars)

MixedCase(s) ==
    /\ \E i \in DOMAIN s : s[i] \in Range(UpperCase)
    /\ \E i \in DOMAIN s : s[i] \in Range(LowerCase)

\* ethers.isAddress(value): a string of 40 hexadecimal digits, with or
\* without the prefix 0x.  Digits in mixed case carry a checksum, which is
\* not computed here: no address below is in mixed case.
IsAddress(v) ==
    /\ v.t = "string"
    /\ LET body == IF StartsWithIgnoreCase(v.s, <<"0", "x">>) /\ v.s[2] = "x"
                   THEN Drop(v.s, 2) ELSE v.s
       IN  Len(body) = 40 /\ AllHex(body) /\ ~MixedCase(body)

BalanceRequest(address) ==
    [url     |-> "/token/balance/",
     address |-> ToStringJS(address),
     method  |-> "GET",
     body    |-> <<>>]

\* The validation after the request instead of before it.
ApiGetBalanceFetchFirst(address) ==
    /\ apiCall' = [op |-> "getBalance", address |-> address,
                   threw |-> IF IsAddress(address) THEN "none"
                             ELSE "Invalid address"]
    /\ Invoke(BalanceRequest(address), MAX_RETRIES)

\* api.getBalance(address)
ApiGetBalance(address) ==
    IF ~IsAddress(address)
    THEN /\ pc = "idle"
         /\ apiCall' = [op |-> "getBalance", address |-> address,
                        threw |-> "Invalid address"]
         /\ UNCHANGED <<now, rlVars, driveVars, fetchVars, appVars>>
    ELSE /\ apiCall' = [op |-> "getBalance", address |-> address,
                        threw |-> "none"]
         /\ Invoke(BalanceRequest(address), MAX_RETRIES)

\* api.getBalance(address) called by a component that goes on afterwards
GetBalance(address) ==
    IF ~IsAddress(address)
    THEN /\ apiCall' = [op |-> "getBalance", address |-> address,
                        threw |-> "Invalid address"]
         /\ UNCHANGED <<now, rlVars, driveVars, fetchVars>>
    ELSE /\ apiCall' = [op |-> "getBalance", address |-> address,
                        threw |-> "none"]
         /\ Call(BalanceRequest(address), MAX_RETRIES)

RegisterRequest(data) ==
    [url    |-> "/users/register",
     method |-> "POST",
     body   |-> JsonStringify(
        <<  <<"walletAddress", sanitizeInput(Prop(data, "walletAddress"))>>,
            <<"region", sanitizeInput(Prop(data, "region"))>>,
            <<"countryCode", sanitizeInput(Prop(data, "countryCode"))>>,
            <<"userType", sanitizeInput(Prop(data, "userType"))>>  >>)]

\* api.registerUser(data)
ApiRegisterUser(data) ==
    /\ apiCall' = [op |-> "registerUser", data |-> data]
    /\ Invoke(RegisterRequest(data), MAX_RETRIES)

(* Inputs *)

Wallet1 == <<"0", "x">> \o Repeat("a", 38) \o <<"1", "2">>
Wallet2 == Repeat("B", 38) \o <<"9", "0">>

AddressInputs ==
    {Str(Wallet1), Str(Wallet2),
     Str(<<>>), Str(<<"0", "x">> \o Repeat("a", 39)),
     Str(<<"0", "x">> \o Repeat("a", 39) \o <<"g">>),
     Str(<<"0", "X">> \o Repeat("a", 40)),
     Str(ScriptFlood), Num(7), Undefined, Null}

ParamInputs ==
    {<<>>,
     << <<"region", Str(Lagos)>> >>,
     << <<"region", Str(PaddedLagos)>>, <<"limit", Num(7)>> >>,
     << <<"type", Str(ScriptFlood)>> >>,
     << <<"type", Str(<<"j","a","v","a","s","c","r","i","p","t",":","x">>)>> >>}

Farmer == <<"f","a","r","m","e","r">>

UserInputs ==
    {[walletAddress |-> Str(Wallet1), region |-> Str(Lagos),
      countryCode |-> Str(<<"N", "G">>), userType |-> Str(Farmer)],
     [walletAddress |-> Str(<<" ">> \o Wallet1), region |-> Str(ScriptFlood),
      countryCode |-> Str(<<"<", "N", "G", ">">>),
      userType |-> Str(<<"o","n","x","=">> \o Farmer)],
     [walletAddress |-> Str(Wallet1), region |-> Str(PaddedLagos)]}

FacadeAlerts ==
    {ScenarioAlert,
     [disasterType |-> Str(Flood), region |-> Str(Lagos),
      riskScore |-> Num(50)]}

InitApi ==
    /\ now = 1000
    /\ requestLog \in {<<>>, Filled(MAX_REQUESTS_PER_WINDOW, 0)}
    /\ admitted = requestLog
    /\ lastCheck = NoCheck
    /\ ticks = 0
    /\ burst = 0
    /\ FetchIdle
    /\ AppIdle

NextApi ==
    \/ \E op \in DOMAIN PlainPaths : ApiGet(op)
    \/ \E params \in ParamInputs : ApiGetAlerts(params)
    \/ \E data \in FacadeAlerts : ApiCreateAlert(data)
    \/ \E address \in AddressInputs : ApiGetBalance(address)
    \/ \E data \in UserInputs : ApiRegisterUser(data)
    \/ FetchSteps

SpecApi == InitApi /\ [][NextApi]_vars

-----------------------------------------------------------------------------
(* useWallet: the wallet connection state of a mounted component, the      *)
(* requests of its effect, the events of the injected provider, and the    *)
(* operations connect, switchNetwork and disconnect.                       *)

NETWORKS ==
    [polygon |-> [chainId |-> 137, name |-> "Polygon Mainnet",
                  rpcUrl |-> "https://polygon-rpc.com",
                  explorer |-> "https://polygonscan.com",
                  currency |-> [name |-> "MATIC", symbol |-> "MATIC",
                                decimals |-> 18]],
     amoy    |-> [chainId |-> 80002, name |-> "Polygon Amoy Testnet",
                  rpcUrl |-> "https://rpc-amoy.polygon.technology",
                  explorer |-> "https://www.oklink.com/amoy",
                  currency |-> [name |-> "MATIC", symbol |-> "MATIC",
                                decimals |-> 18]],
     hardhat |-> [chainId |-> 31337, name |-> "Hardhat Local",
                  rpcUrl |-> "http://127.0.0.1:8545",
                  explorer |-> "",
                  currency |-> [name |-> "ETH", symbol |-> "ETH",
                                decimals |-> 18]]]

\* a message, as the error slots hold it
Text(m) == [t |-> "string", text |-> m]

\* the values that count as false in a condition
Falsy(v) ==
    \/ v.t \in {"undefined", "null"}
    \/ v.t = "string" /\ "s" \in DOMAIN v /\ v.s = <<>>
    \/ v.t = "number" /\ (v.form = "NaN" \/ (v.form = "int" /\ v.n = 0))

\* accounts[0]: undefined when the list is empty
First(accounts) == IF accounts = <<>> THEN Undefined ELSE accounts[1]

FirstKeepsUndefined(accounts) == First(accounts)

\* accounts[0] || null
FirstOrNull(accounts) ==
    IF Falsy(First(accounts)) THEN Null ELSE First(accounts)

\* n.toString(16)
RECURSIVE NatToHex(_)
NatToHex(n) ==
    IF n < 16 THEN <<HexChars[n + 1]>>
    ELSE NatToHex(n \div 16) \o <<HexChars[(n % 16) + 1]>>

DecimalChainId(n) == <<"0", "x">> \o NatToChars(n)

\* `0x${chainId.toString(16)}`
HexChainId(n) == <<"0", "x">> \o NatToHex(n)

\* parseInt(v, 16): leading white space, a sign, an optional 0x, then the
\* longest run of hexadecimal digits; NaN when that run is empty
parseIntHex(v) ==
    LET str      == TrimStart(ToStringJS(v))
        negative == str # <<>> /\ Head(str) = "-"
        unsigned == IF str # <<>> /\ Head(str) \in {"+", "-"}
                    THEN Tail(str) ELSE str
        rest     == IF StartsWithIgnoreCase(unsigned, <<"0", "x">>)
                    THEN Drop(unsigned, 2) ELSE unsigned
        digits   == SubSeq(rest, 1, DigitRun(rest, 16))
    IN  IF digits = <<>> THEN NaN
        ELSE Num((IF negative THEN -1 ELSE 1) * DigitsValue(digits, 16))

\* The errors the provider rejects a request with.
UserRejected      == [code |-> 4001, message |-> "User rejected the request."]
UnrecognizedChain == [code |-> 4902, message |-> "Unrecognized chain ID"]
RequestPending    == [code |-> -32002, message |-> "Request already pending"]

\* window.ethereum.request on an undefined window.ethereum: a TypeError,
\* which has no code
NoEthereumTypeError ==
    [message |-> "Cannot read properties of undefined (reading 'request')"]

ErrorCode(e) == IF "code" \in DOMAIN e THEN e.code ELSE 0

(* Inputs *)

Account1 == Str(Wallet1)
Account2 == Str(Wallet2)

\* what eth_accounts resolves with and accountsChanged reports
AccountLists == {<<>>, <<Account1>>, <<Account2, Account1>>}

\* what eth_chainId resolves with and chainChanged reports
ChainReports == {Str(HexChainId(NETWORKS["amoy"].chainId))}

NetworkIds == DOMAIN NETWORKS \cup {"mainnet"}

MaxPending == 2

\* the effect of useWallet, run once after the first render
WalletMounted ==
    /\ account = Null
    /\ chainId = Null
    /\ isConnecting = FALSE
    /\ walletError = Null
    /\ listening = hasProvider
    /\ accountsQuery = (IF hasProvider THEN "pending" ELSE "none")
    /\ chainQuery = (IF hasProvider THEN "pending" ELSE "none")
    /\ connects = 0
    /\ switchCall = NoSwitch
    /\ lastConnect = NoConnect

\* eth_accounts of the effect resolves: .then(handleAccountsChanged)
AccountsQueryResolves(accounts) ==
    /\ accountsQuery = "pending"
    /\ accountsQuery' = "done"
    /\ account' = FirstOrNull(accounts)
    /\ UNCHANGED <<chainId, isConnecting, walletError, listening, chainQuery,
                   connects, switchCall, lastConnect, outsideWallet>>

\* ... or rejects: no handler is attached
AccountsQueryRejects ==
    /\ accountsQuery = "pending"
    /\ accountsQuery' = "done"
    /\ UNCHANGED <<account, chainId, isConnecting, walletError, listening,
                   chainQuery, connects, switchCall, lastConnect,
                   outsideWallet>>

\* eth_chainId of the effect resolves: .then(handleChainChanged)
ChainQueryResolves(id) ==
    /\ chainQuery = "pending"
    /\ chainQuery' = "done"
    /\ chainId' = parseIntHex(id)
    /\ UNCHANGED <<account, isConnecting, walletError, listening,
                   accountsQuery, connects, switchCall, lastConnect,
                   outsideWallet>>

ChainQueryRejects ==
    /\ chainQuery = "pending"
    /\ chainQuery' = "done"
    /\ UNCHANGED <<account, chainId, isConnecting, walletError, listening,
                   accountsQuery, connects, switchCall, lastConnect,
                   outsideWallet>>

\* the provider emits accountsChanged: handleAccountsChanged(accounts)
AccountsChanged(accounts) ==
    /\ listening
    /\ account' = FirstOrNull(accounts)
    /\ UNCHANGED <<chainId, isConnecting, walletError, listening,
                   accountsQuery, chainQuery, connects, switchCall,
                   lastConnect, outsideWallet>>

\* the provider emits chainChanged: handleChainChanged(newChainId)
ChainChanged(id) ==
    /\ listening
    /\ chainId' = parseIntHex(id)
    /\ UNCHANGED <<account, isConnecting, walletError, listening,
                   accountsQuery, chainQuery, connects, switchCall,
                   lastConnect, outsideWallet>>

\* what a connect call leaves when it returns
Returned(value, acc, connecting, err) ==
    [returned |-> value, account |-> acc, isConnecting |-> connecting,
     error |-> err]

\* connect(): without a provider it returns false at once, with one it
\* sends eth_requestAccounts
Connect ==
    /\ IF ~hasProvider
       THEN /\ walletError' = Text("Please install MetaMask")
            /\ lastConnect' = Returned("false", account, isConnecting,
                                       walletError')
            /\ UNCHANGED <<isConnecting, connects>>
       ELSE /\ connects < MaxPending
            /\ isConnecting' = TRUE
            /\ walletError' = Null
            /\ connects' = connects + 1
            /\ UNCHANGED lastConnect
    /\ UNCHANGED <<account, chainId, listening, accountsQuery, chainQuery,
                   switchCall, outsideWallet>>

\* eth_requestAccounts resolves: setAccount(accounts[0]), return true, and
\* the finally block
ConnectResolves(accounts) ==
    /\ connects > 0
    /\ accounts # <<>>
    /\ connects' = connects - 1
    /\ account' = First(accounts)
    /\ isConnecting' = FALSE
    /\ lastConnect' = Returned("true", account', FALSE, walletError)
    /\ UNCHANGED <<chainId, walletError, listening, accountsQuery,
                   chainQuery, switchCall, outsideWallet>>

\* The catch block without the finally block.
ConnectRejectsStaysConnecting(e) ==
    /\ connects > 0
    /\ connects' = connects - 1
    /\ walletError' = Text(e.message)
    /\ lastConnect' = Returned("false", account, isConnecting, walletError')
    /\ UNCHANGED <<account, chainId, isConnecting, listening, accountsQuery,
                   chainQuery, switchCall, outsideWallet>>

\* eth_requestAccounts rejects: setError(err.message), return false, and
\* the finally block
ConnectRejects(e) ==
    /\ connects > 0
    /\ connects' = connects - 1
    /\ walletError' = Text(e.message)
    /\ isConnecting' = FALSE
    /\ lastConnect' = Returned("false", account, FALSE, walletError')
    /\ UNCHANGED <<account, chainId, listening, accountsQuery, chainQuery,
                   switchCall, outsideWallet>>

\* disconnect()
Disconnect ==
    /\ account' = Null
    /\ UNCHANGED <<chainId, isConnecting, walletError, listening,
                   accountsQuery, chainQuery, connects, switchCall,
                   lastConnect, outsideWallet>>

\* the parameter of wallet_switchEthereumChain
SwitchParams(network) == [chainId |-> HexChainId(network.chainId)]

\* the parameter of wallet_addEthereumChain
AddParams(network) ==
    [chainId           |-> HexChainId(network.chainId),
     chainName         |-> network.name,
     rpcUrls           |-> <<network.rpcUrl>>,
     nativeCurrency    |-> network.currency,
     blockExplorerUrls |-> IF network.explorer # ""
                           THEN <<network.explorer>> ELSE <<>>]

SwitchReturned(id, value, how, requests) ==
    [state |-> "returned", networkId |-> id, result |-> value, via |-> how,
     sent |-> requests]

\* switchNetwork(networkId), up to its first await
SwitchNetwork(id) ==
    /\ switchCall.state \in {"none", "returned"}
    /\ IF id \notin DOMAIN NETWORKS
       THEN /\ walletError' = Text("Unknown network")
            /\ switchCall' = SwitchReturned(id, FALSE, "unknown", <<>>)
       ELSE IF ~hasProvider
       THEN /\ walletError' = Text(NoEthereumTypeError.message)
            /\ switchCall' = SwitchReturned(id, FALSE, "switch", <<>>)
       ELSE /\ switchCall' =
                  [state |-> "switching", networkId |-> id,
                   sent |-> << [method |-> "wallet_switchEthereumChain",
                                params |-> SwitchParams(NETWORKS[id])] >>]
            /\ UNCHANGED walletError
    /\ UNCHANGED <<account, chainId, isConnecting, listening, accountsQuery,
                   chainQuery, connects, lastConnect, outsideWallet>>

\* wallet_switchEthereumChain resolves: return true
SwitchResolves ==
    /\ switchCall.state = "switching"
    /\ switchCall' = SwitchReturned(switchCall.networkId, TRUE, "switch",
                                    switchCall.sent)
    /\ UNCHANGED <<account, chainId, isConnecting, walletError, listening,
                   accountsQuery, chainQuery, connects, lastConnect,
                   outsideWallet>>

\* wallet_switchEthereumChain rejects: with code 4902 the network is added,
\* with any other error the call returns false
SwitchRejects(e) ==
    /\ switchCall.state = "switching"
    /\ IF ErrorCode(e) = 4902
       THEN /\ switchCall' =
                  [state |-> "adding", networkId |-> switchCall.networkId,
                   sent |-> Append(switchCall.sent,
                       [method |-> "wallet_addEthereumChain",
                        params |-> AddParams(NETWORKS[switchCall.networkId])])]
            /\ UNCHANGED walletError
       ELSE /\ walletError' = Text(e.message)
            /\ switchCall' = SwitchReturned(switchCall.networkId, FALSE,
                                            "switch", switchCall.sent)
    /\ UNCHANGED <<account, chainId, isConnecting, listening, accountsQuery,
                   chainQuery, connects, lastConnect, outsideWallet>>

\* wallet_addEthereumChain resolves: return true
AddResolves ==
    /\ switchCall.state = "adding"
    /\ switchCall' = SwitchReturned(switchCall.networkId, TRUE, "add",
                                    switchCall.sent)
    /\ UNCHANGED <<account, chainId, isConnecting, walletError, listening,
                   accountsQuery, chainQuery, connects, lastConnect,
                   outsideWallet>>

\* wallet_addEthereumChain rejects: setError(addError.message), return false
AddRejects(e) ==
    /\ switchCall.state = "adding"
    /\ walletError' = Text(e.message)
    /\ switchCall' = SwitchReturned(switchCall.networkId, FALSE, "add",
                                    switchCall.sent)
    /\ UNCHANGED <<account, chainId, isConnecting, listening, accountsQuery,
                   chainQuery, connects, lastConnect, outsideWallet>>

\* what happens once a request of connect or switchNetwork is pending
WalletSettles ==
    \/ \E accounts \in AccountLists : ConnectResolves(accounts)
    \/ \E e \in {UserRejected, RequestPending} : ConnectRejects(e)
    \/ SwitchResolves
    \/ \E e \in {UnrecognizedChain, UserRejected} : SwitchRejects(e)
    \/ AddResolves
    \/ \E e \in {UserRejected, RequestPending} : AddRejects(e)

InitWallet ==
    /\ NetIdle
    /\ SanitizeIdle
    /\ HooksIdle
    /\ PagesIdle
    /\ hasProvider \in BOOLEAN
    /\ WalletMounted

NextWallet ==
    \/ \E accounts \in AccountLists : AccountsQueryResolves(accounts)
    \/ AccountsQueryRejects
    \/ \E id \in ChainReports : ChainQueryResolves(id)
    \/ ChainQueryRejects
    \/ \E accounts \in AccountLists : AccountsChanged(accounts)
    \/ \E id \in ChainReports : ChainChanged(id)
    \/ Connect
    \/ Disconnect
    \/ \E id \in NetworkIds : SwitchNetwork(id)
    \/ WalletSettles

SpecWallet == InitWallet /\ [][NextWallet]_vars

-----------------------------------------------------------------------------
(* getContract and the contract hooks useKAIToken, useRevenue, useStaking  *)
(* and useGovernance.  An operation is a list of steps; the steps that     *)
(* await the provider or the chain are settled by the environment.         *)

\* the names CONTRACT_ADDRESSES lists for the default network
AddressNames ==
    {"KAIToken", "KAIRevenue", "KAIGovernance", "ClimateAlertStaking",
     "KAI_Oracle", "KaiHealth", "KAI_Agriculture", "KAI_LawEvidence",
     "KaiDisasterResponse", "KAIVesting"}

\* the names ABIS lists; each list is non-empty
AbiNames ==
    {"KAIToken", "KAIRevenue", "KAIGovernance", "ClimateAlertStaking",
     "KaiHealth", "KaiDisasterResponse", "KAIVesting"}

DeployedAt == Str(<<"0", "x">> \o Repeat("c", 40))

\* config.addresses[contractName]
ConfigAddress(name) ==
    IF name \notin AddressNames THEN Undefined
    ELSE IF name \in deployed THEN DeployedAt ELSE Str(<<>>)

\* config.abis[contractName]
ConfigAbi(name) ==
    IF name \in AbiNames THEN [t |-> "array", of |-> name] ELSE Undefined

NotConfigured(name) == [message |-> "Contract not configured", name |-> name]
NoProvider          == [message |-> "No wallet provider found"]
CallFailed          == [message |-> "could not decode result data"]
InvalidAmount       == [message |-> "invalid FixedNumber string value"]
Reverted            == [message |-> "transaction execution reverted"]

\* the steps of an operation
Contract(name, withSigner) ==
    [k |-> "contract", name |-> name, signer |-> withSigner]
Read(call) == [k |-> "read", call |-> call]
ParseUnits == [k |-> "parse"]
Send(call) == [k |-> "send", call |-> call]
Wait       == [k |-> "wait"]

ReadOp(hook, steps, returns, sentinel) ==
    [hook |-> hook, plan |-> steps, returns |-> returns,
     sentinel |-> sentinel]

\* submit and wait behind a contract bound to the provider
HashWriteWithProvider(hook, name, call) ==
    [hook |-> hook, returns |-> "hash", sentinel |-> Null,
     plan |-> <<Contract(name, FALSE), Send(call), Wait>>]

\* submit and wait behind the signer contract: return tx.hash
HashWrite(hook, name, call) ==
    [hook |-> hook, returns |-> "hash", sentinel |-> Null,
     plan |-> <<Contract(name, TRUE), Send(call), Wait>>]

\* the same: return {txHash: tx.hash, receipt}
PairWrite(hook, name, call) ==
    [hook |-> hook, returns |-> "pair", sentinel |-> Null,
     plan |-> <<Contract(name, TRUE), Send(call), Wait>>]

\* decimals and parseUnits before the submission: return tx.hash
AmountWrite(hook, call) ==
    [hook |-> hook, returns |-> "hash", sentinel |-> Null,
     plan |-> <<Contract("KAIToken", TRUE), Read("decimals"), ParseUnits,
                Send(call), Wait>>]

\* a read of `name` that formats with the decimals of the token
InfoRead(hook, name, calls) ==
    [hook |-> hook, returns |-> "object", sentinel |-> Null,
     plan |-> <<Contract(name, FALSE), Contract("KAIToken", FALSE),
                Read("decimals")>> \o [i \in DOMAIN calls |-> Read(calls[i])]]

HookOps ==
    [getBalance |->
        ReadOp("token", <<Contract("KAIToken", FALSE), Read("balanceOf"),
                          Read("decimals")>>, "formatted", Str(<<"0">>)),
     getTokenInfo |->
        ReadOp("token", <<Contract("KAIToken", FALSE), Read("Promise.all")>>,
               "object", Null),
     transfer |-> AmountWrite("token", "transfer"),
     approve  |-> AmountWrite("token", "approve"),
     burn     |-> AmountWrite("token", "directBurn"),
     getRevenueStats |-> InfoRead("revenue", "KAIRevenue", <<"Promise.all">>),
     buyAlert  |-> PairWrite("revenue", "KAIRevenue", "buyAlert"),
     subscribe |-> PairWrite("revenue", "KAIRevenue", "subscribe"),
     getUserStats |->
        InfoRead("revenue", "KAIRevenue",
                 <<"getUserStats", "hasActiveSubscription">>),
     getStakingInfo |->
        InfoRead("staking", "ClimateAlertStaking", <<"Promise.all">>),
     getUserStake |->
        InfoRead("staking", "ClimateAlertStaking",
                 <<"getStakeInfo", "calculateRewards">>),
     stake |->
        [hook |-> "staking", returns |-> "hash", sentinel |-> Null,
         plan |-> <<Contract("ClimateAlertStaking", TRUE),
                    Contract("KAIToken", FALSE), Read("decimals"),
                    ParseUnits, Send("stake"), Wait>>],
     unstake      |-> HashWrite("staking", "ClimateAlertStaking", "unstake"),
     claimRewards |->
        HashWrite("staking", "ClimateAlertStaking", "claimRewards"),
     getGovernanceInfo |->
        InfoRead("governance", "KAIGovernance", <<"Promise.all">>),
     createProposal |-> PairWrite("governance", "KAIGovernance", "propose"),
     vote |-> HashWrite("governance", "KAIGovernance", "vote"),
     executeProposal |->
        HashWrite("governance", "KAIGovernance", "executeProposal")]

WriteOps ==
    {"transfer", "approve", "burn", "buyAlert", "subscribe", "stake",
     "unstake", "claimRewards", "createProposal", "vote", "executeProposal"}

\* the steps of the task: those of its hook operation, or the one step of a
\* direct getContract call
Plan(t) == IF t.direct THEN <<Contract(t.name, t.signer)>>
           ELSE HookOps[t.op].plan

\* the contract step whose binding the call of step i is made on: decimals()
\* is read from the binding obtained last (`token` where there is one), every
\* other call is made on the first binding (`contract`)
Callee(plan, i) ==
    LET contracts == {j \in 1..(i - 1) : plan[j].k = "contract"} IN
    IF plan[i].k = "read" /\ plan[i].call = "decimals"
    THEN CHOOSE j \in contracts : \A k \in contracts : k <= j
    ELSE CHOOSE j \in contracts : \A k \in contracts : j <= k

Step(t) == Plan(t)[t.at]

TxHash == Str(<<"0", "x">> \o Repeat("7", 64))

Receipt == [t |-> "object", hash |-> TxHash, status |-> 1]

\* what the operation returns when its last step is done
ReturnValue(t) ==
    IF t.direct
    THEN [t |-> "object", address |-> ConfigAddress(t.name),
          abi |-> ConfigAbi(t.name),
          runner |-> IF t.signer THEN "signer" ELSE "provider"]
    ELSE CASE HookOps[t.op].returns = "hash" -> t.hash
           [] HookOps[t.op].returns = "pair" ->
                 [t |-> "object", txHash |-> t.hash, receipt |-> t.receipt]
           [] HookOps[t.op].returns = "formatted" -> Str(<<"1", ".", "0">>)
           [] HookOps[t.op].returns = "object" -> [t |-> "object"]

\* setLoading(false) of the finally block, and setError of the catch block
Finally(h, err) == [hookState EXCEPT ![h] = [loading |-> FALSE, error |-> err]]

\* the try block runs to its return statement
Return(t) ==
    /\ task' = [t EXCEPT !.state = "returned", !.pending = "none",
                         !.result = ReturnValue(t),
                         !.events = Append(t.events, "returned")]
    /\ hookState' = IF t.direct THEN hookState
                    ELSE Finally(HookOps[t.op].hook,
                                 hookState[HookOps[t.op].hook].error)

\* the step at hand is done: on to the next one, or return
Advance(t) ==
    IF t.at = Len(Plan(t)) THEN Return(t)
    ELSE /\ task' = [t EXCEPT !.at = t.at + 1,
                              !.pending = Plan(t)[t.at + 1].k,
                              !.requests =
                                  IF Plan(t)[t.at + 1].k \in {"read", "send",
                                                              "wait"}
                                  THEN t.requests + 1 ELSE t.requests]
         /\ UNCHANGED hookState

\* The catch block, with the error left out of the error slot.
FailSilently(t, e) ==
    /\ task' = [t EXCEPT !.state = "returned", !.pending = "none",
                         !.failure = e,
                         !.threw = t.direct,
                         !.result = IF t.direct THEN Undefined
                                    ELSE HookOps[t.op].sentinel]
    /\ hookState' = IF t.direct THEN hookState
                    ELSE Finally(HookOps[t.op].hook, Null)

\* an error is thrown in the try block: a hook operation stores its message
\* and returns its sentinel, getContract itself throws to its caller
Fail(t, e) ==
    /\ task' = [t EXCEPT !.state = "returned", !.pending = "none",
                         !.failure = e,
                         !.threw = t.direct,
                         !.result = IF t.direct THEN Undefined
                                    ELSE HookOps[t.op].sentinel]
    /\ hookState' = IF t.direct THEN hookState
                    ELSE Finally(HookOps[t.op].hook, Text(e.message))

\* new ethers.Contract(address, abi, runner) for the contract step at hand
Bind(t, runner) ==
    [t EXCEPT !.bound = Append(t.bound, [step |-> t.at,
                                         name |-> Step(t).name,
                                         runner |-> runner])]

NewTask(op, direct, name, withSigner, amountOk) ==
    [state |-> "running", op |-> op, direct |-> direct, name |-> name,
     signer |-> withSigner, amountOk |-> amountOk, at |-> 1,
     pending |-> "contract", hash |-> Null, receipt |-> Null,
     result |-> Undefined, failure |-> [message |-> "none"], threw |-> FALSE,
     events |-> <<>>, resolved |-> 0, requests |-> 0, bound |-> <<>>]

\* an operation of a hook is called: setLoading(true), setError(null)
HookCall(op, amountOk) ==
    /\ task.state = "none"
    /\ task' = NewTask(op, FALSE, "", FALSE, amountOk)
    /\ hookState' = [hookState EXCEPT ![HookOps[op].hook] =
                        [loading |-> TRUE, error |-> Null]]
    /\ UNCHANGED <<deployed, outsideHooks>>

\* getContract(contractName, withSigner) is called on its own
GetContractCall(name, withSigner) ==
    /\ task.state = "none"
    /\ task' = NewTask("getContract", TRUE, name, withSigner, TRUE)
    /\ UNCHANGED <<deployed, hookState, outsideHooks>>

\* The provider is resolved before the configuration is looked at.
GetContractProviderFirst ==
    /\ task.state = "running"
    /\ task.pending = "contract"
    /\ LET resolved == [task EXCEPT !.resolved = task.resolved + 1] IN
       IF ~hasProvider THEN Fail(resolved, NoProvider)
       ELSE IF Falsy(ConfigAddress(Step(task).name))
               \/ Falsy(ConfigAbi(Step(task).name))
       THEN Fail(resolved, NotConfigured(Step(task).name))
       ELSE IF Step(task).signer
       THEN /\ task' = [resolved EXCEPT !.pending = "signer",
                                        !.resolved = task.resolved + 2,
                                        !.requests = task.requests + 1]
            /\ UNCHANGED hookState
       ELSE Advance(Bind(resolved, "provider"))
    /\ UNCHANGED <<deployed, outsideHooks>>

\* getContract up to its await: the configuration check, getProvider(), and
\* with withSigner the call of getSigner(), which resolves the provider
\* again and asks it for the signer
GetContract ==
    /\ task.state = "running"
    /\ task.pending = "contract"
    /\ IF Falsy(ConfigAddress(Step(task).name))
          \/ Falsy(ConfigAbi(Step(task).name))
       THEN Fail(task, NotConfigured(Step(task).name))
       ELSE LET resolved == [task EXCEPT !.resolved = task.resolved + 1] IN
            IF ~hasProvider THEN Fail(resolved, NoProvider)
            ELSE IF Step(task).signer
            THEN /\ task' = [resolved EXCEPT !.pending = "signer",
                                             !.resolved = task.resolved + 2,
                                             !.requests = task.requests + 1]
                 /\ UNCHANGED hookState
            ELSE Advance(Bind(resolved, "provider"))
    /\ UNCHANGED <<deployed, outsideHooks>>

\* provider.getSigner() resolves: the contract is bound to the signer
SignerResolves ==
    /\ task.state = "running"
    /\ task.pending = "signer"
    /\ Advance(Bind(task, "signer"))
    /\ UNCHANGED <<deployed, outsideHooks>>

\* provider.getSigner() rejects
SignerRejects(e) ==
    /\ task.state = "running"
    /\ task.pending = "signer"
    /\ Fail(task, e)
    /\ UNCHANGED <<deployed, outsideHooks>>

\* a call of a view function (or Promise.all of several) resolves
ReadResolves ==
    /\ task.state = "running"
    /\ task.pending = "read"
    /\ Advance(task)
    /\ UNCHANGED <<deployed, outsideHooks>>

ReadRejects(e) ==
    /\ task.state = "running"
    /\ task.pending = "read"
    /\ Fail(task, e)
    /\ UNCHANGED <<deployed, outsideHooks>>

\* ethers.parseUnits(amount.toString(), decimals)
ParseAmount ==
    /\ task.state = "running"
    /\ task.pending = "parse"
    /\ IF task.amountOk THEN Advance(task) ELSE Fail(task, InvalidAmount)
    /\ UNCHANGED <<deployed, outsideHooks>>

\* the transaction is submitted: tx, with its hash, is at hand
SendResolves ==
    /\ task.state = "running"
    /\ task.pending = "send"
    /\ Advance([task EXCEPT !.hash = TxHash,
                            !.events = Append(task.events, "submitted")])
    /\ UNCHANGED <<deployed, outsideHooks>>

\* the signer or the node rejects the transaction
SendRejects(e) ==
    /\ task.state = "running"
    /\ task.pending = "send"
    /\ Fail(task, e)
    /\ UNCHANGED <<deployed, outsideHooks>>

\* The wait resolves without a receipt.
WaitResolvesUnconfirmed ==
    /\ task.state = "running"
    /\ task.pending = "wait"
    /\ Advance(task)
    /\ UNCHANGED <<deployed, outsideHooks>>

\* tx.wait() resolves with the receipt: the transaction is confirmed
WaitResolves ==
    /\ task.state = "running"
    /\ task.pending = "wait"
    /\ Advance([task EXCEPT !.receipt = Receipt,
                            !.events = Append(task.events, "confirmed")])
    /\ UNCHANGED <<deployed, outsideHooks>>

\* tx.wait() rejects: the transaction reverted
WaitRejects(e) ==
    /\ task.state = "running"
    /\ task.pending = "wait"
    /\ Fail(task, e)
    /\ UNCHANGED <<deployed, outsideHooks>>

HookSteps ==
    \/ GetContract
    \/ SignerResolves
    \/ SignerRejects(UserRejected)
    \/ ReadResolves
    \/ ReadRejects(CallFailed)
    \/ ParseAmount
    \/ SendResolves
    \/ SendRejects(UserRejected)
    \/ WaitResolves
    \/ WaitRejects(Reverted)

-----------------------------------------------------------------------------
(* The wallet and contract layer: one operation of it, called on a mounted *)
(* component, with or without an injected provider, and with the           *)
(* addresses of the configuration filled in or not.                        *)

DeployedConfigs ==
    {{}, AddressNames, AddressNames \ {"KAIToken"}, {"KAIToken"}}

ContractNames == AddressNames \cup {"Unlisted"}

\* no operation has been called yet
Fresh ==
    /\ task.state = "none"
    /\ connects = 0
    /\ switchCall = NoSwitch
    /\ lastConnect = NoConnect

LayerHookCall(op, amountOk) == Fresh /\ HookCall(op, amountOk)

LayerGetContract(name, withSigner) ==
    Fresh /\ GetContractCall(name, withSigner)

LayerConnect == Fresh /\ Connect

LayerSwitchNetwork(id) == Fresh /\ SwitchNetwork(id)

InitLayer ==
    /\ NetIdle
    /\ SanitizeIdle
    /\ PagesIdle
    /\ hasProvider \in BOOLEAN
    /\ WalletMounted
    /\ deployed \in DeployedConfigs
    /\ \E stale \in {Null, Text("an earlier failure")} :
          hookState = [h \in Hooks |-> [loading |-> FALSE, error |-> stale]]
    /\ task = NoTask

NextLayer ==
    \/ \E op \in DOMAIN HookOps, amountOk \in BOOLEAN :
          LayerHookCall(op, amountOk)
    \/ \E name \in ContractNames, withSigner \in BOOLEAN :
          LayerGetContract(name, withSigner)
    \/ LayerConnect
    \/ \E id \in NetworkIds : LayerSwitchNetwork(id)
    \/ HookSteps
    \/ WalletSettles

SpecLayer == InitLayer /\ [][NextLayer]_vars

-----------------------------------------------------------------------------
(* The Wallet page: one run of connectWallet.                              *)

InstallMetaMask == "Please install MetaMask"
WalletConnected == "Wallet connected!"
FailedToConnect == "Failed to connect wallet"

\* the page as useState leaves it
WalletPageMounted ==
    [pc |-> "idle", address |-> Str(<<>>), balance |-> Null,
     connected |-> FALSE, loading |-> FALSE, notes |-> <<>>, runs |-> 0]

outsideWalletPage ==
    <<sanVars, hasProvider, walletVars, hookVars, unmounted, socket, dash,
      running, alertsPage, unitsCall>>

\* addNotification(message, type)
Notify(page, message) == [page EXCEPT !.notes = Append(page.notes, message)]

\* the catch block and the finally block of connectWallet
ConnectWalletFailed(page) ==
    [Notify(page, FailedToConnect) EXCEPT !.loading = FALSE, !.pc = "idle"]

\* connectWallet() up to its first await
ConnectWallet ==
    /\ walletPage.pc = "idle"
    /\ walletPage.runs = 0
    /\ walletPage' =
          IF ~hasProvider
          THEN [Notify(walletPage, InstallMetaMask) EXCEPT !.runs = 1]
          ELSE [walletPage EXCEPT !.loading = TRUE, !.pc = "requesting",
                                  !.runs = 1]
    /\ UNCHANGED <<netVars, outsideWalletPage>>

\* eth_requestAccounts resolves: setAddress(accounts[0]), setConnected(true)
\* and the call of api.getBalance(accounts[0]), which throws on an address
\* that is not valid
PageAccountsResolve(accounts) ==
    /\ walletPage.pc = "requesting"
    /\ GetBalance(First(accounts))
    /\ LET set == [walletPage EXCEPT !.address = First(accounts),
                                     !.connected = TRUE]
       IN  walletPage' = IF ~IsAddress(First(accounts))
                         THEN ConnectWalletFailed(set)
                         ELSE [set EXCEPT !.pc = "balance"]
    /\ UNCHANGED outsideWalletPage

\* eth_requestAccounts rejects
PageAccountsReject ==
    /\ walletPage.pc = "requesting"
    /\ walletPage' = ConnectWalletFailed(walletPage)
    /\ UNCHANGED <<netVars, outsideWalletPage>>

\* api.getBalance resolves: setBalance(bal) and the success notification
PageBalanceReturns ==
    /\ walletPage.pc = "balance"
    /\ pc = "returned"
    /\ walletPage' = [Notify(walletPage, WalletConnected) EXCEPT
                         !.balance = Str(<<"p", "a", "r", "s", "e", "d">>),
                         !.loading = FALSE, !.pc = "idle"]
    /\ UNCHANGED <<netVars, outsideWalletPage>>

\* api.getBalance rejects
PageBalanceFails ==
    /\ walletPage.pc = "balance"
    /\ pc = "failed"
    /\ walletPage' = ConnectWalletFailed(walletPage)
    /\ UNCHANGED <<netVars, outsideWalletPage>>

InitWalletPage ==
    /\ now = 1000
    /\ requestLog \in {<<>>, Filled(MAX_REQUESTS_PER_WINDOW, 0)}
    /\ admitted = requestLog
    /\ lastCheck = NoCheck
    /\ ticks = 0
    /\ burst = 0
    /\ FetchIdle
    /\ SanitizeIdle
    /\ hasProvider \in BOOLEAN
    /\ WalletUnmounted
    /\ HooksIdle
    /\ unmounted = FALSE
    /\ socket = NoSocket
    /\ dash = NoDashboard
    /\ running = {}
    /\ walletPage = WalletPageMounted
    /\ alertsPage = NoPage
    /\ unitsCall = NoUnits

NextWalletPage ==
    \/ ConnectWallet
    \/ \E accounts \in AccountLists : PageAccountsResolve(accounts)
    \/ PageAccountsReject
    \/ FetchSteps
    \/ PageBalanceReturns
    \/ PageBalanceFails

SpecWalletPage == InitWalletPage /\ [][NextWalletPage]_vars

-----------------------------------------------------------------------------
(* The Alerts page: one run of handleSubmit.                               *)

RegionRequired == "Region is required"
AlertCreated   == "Alert created successfully!"
FailedToCreate == "Failed to create alert"

HIGH_RISK == 70

\* the page as useState leaves it, with the form filled in
AlertsPageMounted(form) ==
    [pc |-> "idle", newAlert |-> form, submitting |-> FALSE, notes |-> <<>>,
     sounds |-> 0, alerts |-> "initial", runs |-> 0]

\* what the form can hold: the region is typed, the score comes from
\* parseInt of the slider value
Forms ==
    {[disasterType |-> Str(Flood), region |-> g, riskScore |-> Num(50)] :
        g \in {Str(<<>>), Str(<<" ", " ">>), Str(Lagos)}}
    \cup {[disasterType |-> Str(Flood), region |-> Str(Lagos),
           riskScore |-> Num(HIGH_RISK)]}

EmptyForm ==
    [disasterType |-> Str(Flood), region |-> Str(<<>>), riskScore |-> Num(50)]

outsideAlertsPage ==
    <<sanVars, hasProvider, walletVars, hookVars, unmounted, socket, dash,
      running, walletPage, unitsCall>>

\* the catch block and the finally block of handleSubmit
SubmitFailed(page) ==
    [Notify(page, FailedToCreate) EXCEPT !.submitting = FALSE, !.pc = "idle"]

\* handleSubmit(e) up to its first await
HandleSubmit ==
    /\ alertsPage.pc = "idle"
    /\ alertsPage.runs = 0
    /\ IF Trim(alertsPage.newAlert.region.s) = <<>>
       THEN /\ alertsPage' = [Notify(alertsPage, RegionRequired) EXCEPT
                                 !.runs = 1]
            /\ UNCHANGED netVars
       ELSE /\ alertsPage' = [alertsPage EXCEPT !.submitting = TRUE,
                                                !.pc = "creating",
                                                !.runs = 1]
            /\ CreateAlert(alertsPage.newAlert)
    /\ UNCHANGED outsideAlertsPage

\* api.createAlert resolves: the success notification, the sound for a high
\* score, and the call of api.getAlerts()
SubmitCreated ==
    /\ alertsPage.pc = "creating"
    /\ pc = "returned"
    /\ alertsPage' =
          [Notify(alertsPage, AlertCreated) EXCEPT
              !.pc = "listing",
              !.sounds = IF alertsPage.newAlert.riskScore.n >= HIGH_RISK
                         THEN 1 ELSE 0]
    /\ GetAlerts(<<>>)
    /\ UNCHANGED outsideAlertsPage

\* api.createAlert rejects
SubmitCreateFails ==
    /\ alertsPage.pc = "creating"
    /\ pc = "failed"
    /\ alertsPage' = SubmitFailed(alertsPage)
    /\ UNCHANGED <<netVars, outsideAlertsPage>>

\* api.getAlerts resolves: setAlerts(updated), the form is reset
SubmitListed ==
    /\ alertsPage.pc = "listing"
    /\ pc = "returned"
    /\ alertsPage' = [alertsPage EXCEPT !.alerts = "updated",
                                        !.newAlert = EmptyForm,
                                        !.submitting = FALSE,
                                        !.pc = "idle"]
    /\ UNCHANGED <<netVars, outsideAlertsPage>>

\* api.getAlerts rejects
SubmitListFails ==
    /\ alertsPage.pc = "listing"
    /\ pc = "failed"
    /\ alertsPage' = SubmitFailed(alertsPage)
    /\ UNCHANGED <<netVars, outsideAlertsPage>>

InitAlertsPage ==
    /\ now = 1000
    /\ requestLog \in {<<>>, Filled(MAX_REQUESTS_PER_WINDOW - 1, 0),
                        Filled(MAX_REQUESTS_PER_WINDOW, 0)}
    /\ admitted = requestLog
    /\ lastCheck = NoCheck
    /\ ticks = 0
    /\ burst = 0
    /\ FetchIdle
    /\ SanitizeIdle
    /\ WalletIdle
    /\ HooksIdle
    /\ unmounted = FALSE
    /\ socket = NoSocket
    /\ dash = NoDashboard
    /\ running = {}
    /\ walletPage = NoPage
    /\ \E form \in Forms : alertsPage = AlertsPageMounted(form)
    /\ unitsCall = NoUnits

NextAlertsPage ==
    \/ HandleSubmit
    \/ SubmitCreated
    \/ SubmitCreateFails
    \/ FetchSteps
    \/ SubmitListed
    \/ SubmitListFails

SpecAlertsPage == InitAlertsPage /\ [][NextAlertsPage]_vars

-----------------------------------------------------------------------------
(* The Dashboard: the socket it listens to and its refresh runs.  The four *)
(* requests of a run pass the rate limiter when the run starts; what the   *)
(* network then makes of them is taken as one outcome, Promise.all         *)
(* resolving or rejecting.                                                 *)

REFRESH_INTERVAL == 30000

MaxRefresh == 2     \* fetchData runs started
MaxMounts  == 2     \* times the Dashboard is rendered afresh

\* the events the first effect registers a handler for
SocketEvents ==
    {"connect", "disconnect", "stats:update", "clients:count", "alert:new"}

\* getSocket(): the socket is created at the first call only
GetSocket(s) ==
    [s EXCEPT !.instances = IF s.instances = 0 THEN 1 ELSE s.instances]

\* requestLog after n calls of checkRateLimit() at instant t
RECURSIVE Checks(_, _, _)
Checks(log, t, n) ==
    IF n = 0 THEN log ELSE LogAfterCheck(Checks(log, t, n - 1), t)

\* how many of n calls of checkRateLimit() at instant t are admitted
Admitted(log, t, n) == Len(Checks(log, t, n)) - Len(RecentRequests(log, t))

\* api.getHealth(), api.getTokenInfo(), api.getStats(), api.getAlerts(): each
\* enters secureFetch and calls checkRateLimit() before the await
FourChecks ==
    /\ requestLog' = Checks(requestLog, now', 4)
    /\ admitted' = admitted \o Filled(Admitted(requestLog, now', 4), now')
    /\ lastCheck' =
          [result   |-> IF RateLimited(Checks(requestLog, now', 3), now')
                        THEN "rejected" ELSE "admitted",
           at       |-> now',
           before   |-> Checks(requestLog, now', 3),
           inWindow |-> InWindow(admitted
                                 \o Filled(Admitted(requestLog, now', 3),
                                           now'), now')]

\* a run of fetchData started at instant t by instance inst: a rate-limited
\* getHealth (the first call) or getStats (the third) rejects Promise.all,
\* the other two have a fallback
NewRun(d, t) ==
    [run |-> d.started + 1, inst |-> d.mounts,
     admitted |-> Admitted(requestLog, t, 4) >= 3]

\* the component as useState leaves it
DashboardRendered(inst) ==
    [phase |-> "mounted", mounts |-> inst, loading |-> TRUE, shown |-> 0,
     wsConnected |-> FALSE, pushed |-> {}, notes |-> 0]

outsideDash ==
    <<driveVars, fetchVars, apiCall, sanVars, hasProvider, walletVars,
      hookVars, unmounted, running, walletPage, alertsPage, unitsCall>>

\* The first effect and the second effect of a freshly rendered Dashboard:
\* getSocket(), ws.on for the five events and the emit of stats:request;
\* then fetchData() and setInterval(fetchData, 30000).
DashboardMounts ==
    /\ dash.phase \in {"none", "gone"}
    /\ dash.mounts < MaxMounts
    /\ dash.started < MaxRefresh
    /\ socket' = [GetSocket(socket) EXCEPT
                     !.events = socket.events \cup SocketEvents]
    /\ now' = now
    /\ FourChecks
    /\ dash' = DashboardRendered(dash.mounts + 1)
                @@ [interval |-> TRUE, started |-> dash.started + 1,
                    pending |-> dash.pending \cup {NewRun(dash, now)},
                    resolved |-> dash.resolved, late |-> dash.late]
    /\ UNCHANGED outsideDash

\* The cleanups of the two effects: ws.off(name) for the five events, which
\* removes every listener of the event, and clearInterval
DashboardUnmounts ==
    /\ dash.phase = "mounted"
    /\ socket' = [socket EXCEPT !.events = socket.events \ SocketEvents]
    /\ dash' = [dash EXCEPT !.phase = "gone", !.interval = FALSE]
    /\ UNCHANGED netVars
    /\ UNCHANGED <<sanVars, hasProvider, walletVars, hookVars, unmounted,
                   running, walletPage, alertsPage, unitsCall>>

\* the state setters of a handler or of a run act on the instance that
\* created it: on the rendered one, or on one that is gone
Sets(d, inst, update) ==
    IF d.phase = "mounted" /\ d.mounts = inst THEN update
    ELSE [d EXCEPT !.late = d.late + 1]

\* the socket emits an event a listener is registered for
SocketEmits(name) ==
    /\ name \in socket.events
    /\ dash' =
          Sets(dash, dash.mounts,
               CASE name = "connect" -> [dash EXCEPT !.wsConnected = TRUE]
                 [] name = "disconnect" ->
                       [dash EXCEPT !.wsConnected = FALSE]
                 [] OTHER ->
                       [dash EXCEPT !.pushed = dash.pushed \cup {name}])
    /\ UNCHANGED <<socket, netVars>>
    /\ UNCHANGED <<sanVars, hasProvider, walletVars, hookVars, unmounted,
                   running, walletPage, alertsPage, unitsCall>>

\* the interval timer fires: fetchData()
IntervalFires ==
    /\ dash.phase = "mounted"
    /\ dash.interval
    /\ dash.started < MaxRefresh
    /\ now' = now + REFRESH_INTERVAL
    /\ FourChecks
    /\ dash' = [dash EXCEPT !.started = dash.started + 1,
                            !.pending = dash.pending
                                         \cup {NewRun(dash, now')}]
    /\ UNCHANGED <<socket, outsideDash>>

\* Promise.all of a run resolves: setData, setAlerts, setLastUpdate, the
\* activity entry, and setLoading(false)
RefreshResolves(r) ==
    /\ r \in dash.pending
    /\ r.admitted
    /\ LET settled == [dash EXCEPT !.pending = dash.pending \ {r},
                                   !.resolved = dash.resolved \cup {r.run}]
       IN  dash' = Sets(settled, r.inst,
                        [settled EXCEPT !.shown = r.run, !.loading = FALSE])
    /\ UNCHANGED <<socket, netVars>>
    /\ UNCHANGED <<sanVars, hasProvider, walletVars, hookVars, unmounted,
                   running, walletPage, alertsPage, unitsCall>>

\* Promise.all of a run rejects: the error notification and setLoading(false)
RefreshRejects(r) ==
    /\ r \in dash.pending
    /\ LET settled == [dash EXCEPT !.pending = dash.pending \ {r}]
       IN  dash' = Sets(settled, r.inst,
                        [settled EXCEPT !.notes = 1, !.loading = FALSE])
    /\ UNCHANGED <<socket, netVars>>
    /\ UNCHANGED <<sanVars, hasProvider, walletVars, hookVars, unmounted,
                   running, walletPage, alertsPage, unitsCall>>

\* the cleanup of the effect of useWallet: removeListener for both handlers
WalletTeardown ==
    /\ ~unmounted
    /\ unmounted' = TRUE
    /\ listening' = FALSE
    /\ UNCHANGED <<account, chainId, isConnecting, walletError,
                   accountsQuery, chainQuery, connects, switchCall,
                   lastConnect>>
    /\ UNCHANGED <<netVars, sanVars, hasProvider, hookVars, socket, dash,
                   running, walletPage, alertsPage, unitsCall>>

\* no Dashboard rendered yet
DashboardAbsent ==
    [phase |-> "none", mounts |-> 0, interval |-> FALSE, started |-> 0,
     pending |-> {}, resolved |-> {}, late |-> 0]

InitMount ==
    /\ now = 1000
    /\ requestLog \in {<<>>, Filled(MAX_REQUESTS_PER_WINDOW - 2, 0)}
    /\ admitted = requestLog
    /\ lastCheck = NoCheck
    /\ ticks = 0
    /\ burst = 0
    /\ FetchIdle
    /\ SanitizeIdle
    /\ hasProvider \in BOOLEAN
    /\ WalletMounted
    /\ HooksIdle
    /\ unmounted = FALSE
    /\ socket = NoSocket
    /\ dash = DashboardAbsent
    /\ running = {}
    /\ walletPage = NoPage
    /\ alertsPage = NoPage
    /\ unitsCall = NoUnits

NextMount ==
    \/ \E accounts \in AccountLists : AccountsQueryResolves(accounts)
    \/ AccountsQueryRejects
    \/ \E id \in ChainReports : ChainQueryResolves(id)
    \/ ChainQueryRejects
    \/ \E accounts \in AccountLists : AccountsChanged(accounts)
    \/ \E id \in ChainReports : ChainChanged(id)
    \/ WalletTeardown
    \/ DashboardMounts
    \/ DashboardUnmounts
    \/ \E name \in SocketEvents : SocketEmits(name)
    \/ IntervalFires
    \/ \E r \in dash.pending : RefreshResolves(r)
    \/ \E r \in dash.pending : RefreshRejects(r)

SpecMount == InitMount /\ [][NextMount]_vars

-----------------------------------------------------------------------------
(* The consumers of the socket and of the wallet provider: the Dashboard,  *)
(* rendered and left, and a call of getContract.                           *)

InitShared ==
    /\ now = 1000
    /\ requestLog \in {<<>>, Filled(MAX_REQUESTS_PER_WINDOW - 2, 0)}
    /\ admitted = requestLog
    /\ lastCheck = NoCheck
    /\ ticks = 0
    /\ burst = 0
    /\ FetchIdle
    /\ SanitizeIdle
    /\ hasProvider \in BOOLEAN
    /\ WalletMounted
    /\ deployed = AddressNames
    /\ hookState = [h \in Hooks |-> [loading |-> FALSE, error |-> Null]]
    /\ task = NoTask
    /\ unmounted = FALSE
    /\ socket = NoSocket
    /\ dash = DashboardAbsent
    /\ running = {}
    /\ walletPage = NoPage
    /\ alertsPage = NoPage
    /\ unitsCall = NoUnits

NextShared ==
    \/ DashboardMounts
    \/ DashboardUnmounts
    \/ \E name \in ContractNames, withSigner \in BOOLEAN :
          GetContractCall(name, withSigner)
    \/ GetContract
    \/ SignerResolves
    \/ SignerRejects(UserRejected)

SpecShared == InitShared /\ [][NextShared]_vars

-----------------------------------------------------------------------------
(* Several operations in flight on one instance of each hook.  Each is the *)
(* same frame: setLoading(true) and setError(null) when called, the try    *)
(* block across its awaits, then setError in the catch block and           *)
(* setLoading(false) in the finally block.                                 *)

MaxInFlight == 2

\* an operation is called while others may be awaiting
OpCalled(op) ==
    /\ op \notin running
    /\ Cardinality(running) < MaxInFlight
    /\ running' = running \cup {op}
    /\ hookState' = [hookState EXCEPT ![HookOps[op].hook] =
                        [loading |-> TRUE, error |-> Null]]
    /\ UNCHANGED <<netVars, sanVars, hasProvider, walletVars, deployed, task,
                   unmounted, socket, dash, walletPage, alertsPage,
                   unitsCall>>

\* its try block reaches the return statement
OpReturns(op) ==
    /\ op \in running
    /\ running' = running \ {op}
    /\ hookState' = Finally(HookOps[op].hook,
                            hookState[HookOps[op].hook].error)
    /\ UNCHANGED <<netVars, sanVars, hasProvider, walletVars, deployed, task,
                   unmounted, socket, dash, walletPage, alertsPage,
                   unitsCall>>

\* an await of its try block throws
OpThrows(op, e) ==
    /\ op \in running
    /\ running' = running \ {op}
    /\ hookState' = Finally(HookOps[op].hook, Text(e.message))
    /\ UNCHANGED <<netVars, sanVars, hasProvider, walletVars, deployed, task,
                   unmounted, socket, dash, walletPage, alertsPage,
                   unitsCall>>

InitConcurrent ==
    /\ NetIdle
    /\ AppIdle

NextConcurrent ==
    \/ \E op \in DOMAIN HookOps : OpCalled(op)
    \/ \E op \in DOMAIN HookOps : OpReturns(op)
    \/ \E op \in DOMAIN HookOps : OpThrows(op, CallFailed)

SpecConcurrent == InitConcurrent /\ [][NextConcurrent]_vars

-----------------------------------------------------------------------------
(* Token amounts: ethers.parseUnits in the write operations and            *)
(* ethers.formatUnits in the read operations.  A fixed-point integer (a    *)
(* BigInt) is the sequence of its decimal digits, so no width is lost.     *)

IsDigits(s) == \A i \in DOMAIN s : s[i] \in Range(DigitChars)

RECURSIVE StripLeadingZeros(_)
StripLeadingZeros(s) ==
    IF s # <<>> /\ Head(s) = "0" THEN StripLeadingZeros(Tail(s)) ELSE s

\* BigInt(digits).toString()
BigIntDigits(s) ==
    IF StripLeadingZeros(s) = <<>> THEN <<"0">> ELSE StripLeadingZeros(s)

\* the groups of /^([0-9]*)\.?([0-9]*)$/ in s
WholePart(s) ==
    IF "." \in Range(s) THEN SubSeq(s, 1, IndexOf(s, ".") - 1) ELSE s

FractionPart(s) ==
    IF "." \in Range(s) THEN Drop(s, IndexOf(s, ".")) ELSE <<>>

TooManyDecimals == [message |-> "too many decimals for format"]

\* ethers.parseUnits(value, decimals): the whole digits followed by the
\* fraction padded with zeros to `decimals` digits; digits beyond them must
\* all be zero
parseUnits(value, decimals) ==
    LET whole == WholePart(value)
        fraction == FractionPart(value)
        padded == fraction \o Repeat("0", decimals - Len(fraction))
    IN  IF ~IsDigits(whole) \/ ~IsDigits(fraction)
           \/ Len(whole) + Len(fraction) = 0
        THEN [ok |-> FALSE, error |-> InvalidAmount]
        ELSE IF \E i \in (decimals + 1)..Len(padded) : padded[i] # "0"
        THEN [ok |-> FALSE, error |-> TooManyDecimals]
        ELSE [ok |-> TRUE,
              value |-> BigIntDigits((IF whole = <<>> THEN <<"0">> ELSE whole)
                                     \o SubSeq(padded, 1, decimals))]

\* the trailing zeros of the fraction go, but for the one behind the point
RECURSIVE TrimFraction(_)
TrimFraction(s) ==
    IF Len(s) >= 2 /\ s[Len(s)] = "0" /\ s[Len(s) - 1] # "."
    THEN TrimFraction(SubSeq(s, 1, Len(s) - 1)) ELSE s

\* the leading zeros of the whole part go, but for the one before the point
RECURSIVE TrimWhole(_)
TrimWhole(s) ==
    IF Len(s) >= 2 /\ s[1] = "0" /\ s[2] # "." THEN TrimWhole(Tail(s)) ELSE s

\* The fraction is written out with every digit it has.
formatUnitsUntrimmed(digits, decimals) ==
    IF decimals = 0 THEN digits
    ELSE LET str == Repeat("0", decimals + 1 - Len(digits)) \o digits
             index == Len(str) - decimals
         IN  TrimWhole(SubSeq(str, 1, index) \o <<".">> \o Drop(str, index))

\* ethers.formatUnits(value, decimals): the digits padded to a whole digit,
\* the point put in, zeros trimmed at both ends
formatUnits(digits, decimals) ==
    IF decimals = 0 THEN digits
    ELSE LET str == Repeat("0", decimals + 1 - Len(digits)) \o digits
             index == Len(str) - decimals
         IN  TrimFraction(TrimWhole(SubSeq(str, 1, index) \o <<".">>
                                    \o Drop(str, index)))

\* what contract.decimals() may return
DecimalCounts == {0, 3, 18}

WholeInputs ==
    {<<>>, <<"0">>, <<"1">>, <<"1", "2", "3">>, <<"0", "0", "7">>,
     <<"1", "0", "0">>}

FractionInputs ==
    {<<>>, <<".">>, <<".", "0">>, <<".", "5">>, <<".", "4", "5", "6">>,
     <<".", "5", "0">>, <<".", "0", "5">>, <<".", "4", "5", "6", "0">>,
     <<".", "4", "5", "6", "7">>, <<".", "2", ".", "3">>,
     <<".">> \o Repeat("0", 17) \o <<"1">>}

AmountInputs == {w \o f : w \in WholeInputs, f \in FractionInputs}

\* a write operation converts the amount it was given ...
AmountParsed(amount, decimals) ==
    /\ unitsCall.state = "none"
    /\ unitsCall' = [state |-> "parsed", amount |-> amount,
                     decimals |-> decimals,
                     wei |-> parseUnits(amount, decimals)]
    /\ UNCHANGED <<netVars, sanVars, hasProvider, walletVars, hookVars,
                   unmounted, socket, dash, running, walletPage, alertsPage>>

\* ... and a read operation converts the integer back
AmountFormatted ==
    /\ unitsCall.state = "parsed"
    /\ unitsCall.wei.ok
    /\ unitsCall' = [unitsCall EXCEPT
                        !.state = "formatted",
                        !.wei = [ok |-> TRUE, value |-> unitsCall.wei.value,
                                 back |-> formatUnits(unitsCall.wei.value,
                                                      unitsCall.decimals)]]
    /\ UNCHANGED <<netVars, sanVars, hasProvider, walletVars, hookVars,
                   unmounted, socket, dash, running, walletPage, alertsPage>>

InitUnits ==
    /\ NetIdle
    /\ AppIdle

NextUnits ==
    \/ \E amount \in AmountInputs, decimals \in DecimalCounts :
          AmountParsed(amount, decimals)
    \/ AmountFormatted

SpecUnits == InitUnits /\ [][NextUnits]_vars

-----------------------------------------------------------------------------
(* Properties of the rate limiter (SpecRateLimit)                          *)

RECURSIVE SumSeq(_)
SumSeq(s) == IF s = <<>> THEN 0 ELSE Head(s) + SumSeq(Tail(s))

\* the instants at which a trailing window can hold the most timestamps:
\* each admitted timestamp, the last instant its window covers, and now
Instants ==
    {now} \cup {admitted[i] : i \in DOMAIN admitted}
          \cup {admitted[i] + RATE_LIMIT_WINDOW - 1 : i \in DOMAIN admitted}

\* C1: at non-decreasing clock values, at most 100 admitted calls have their
\* timestamp in the trailing window (t - 60000, t] of any instant t; a call
\* made when 100 admitted timestamps lie in its trailing window is rejected,
\* and a call made when fewer do (the others have fallen out) is admitted.
C1_WindowCeiling ==
    /\ \A t \in Instants : InWindow(admitted, t) <= MAX_REQUESTS_PER_WINDOW
    /\ lastCheck.result = "rejected"
          => lastCheck.inWindow = MAX_REQUESTS_PER_WINDOW
    /\ lastCheck.result = "admitted"
          => lastCheck.inWindow < MAX_REQUESTS_PER_WINDOW

\* more than 100 calls admitted in all, so the window has slid and calls were
\* admitted again, and the latest call is rejected on a full window
C1_Witness ==
    /\ Len(admitted) > MAX_REQUESTS_PER_WINDOW
    /\ lastCheck.result = "rejected"
    /\ InWindow(admitted, now) = MAX_REQUESTS_PER_WINDOW

\* the entries of log that are strictly later than t - 60000, in order
Retained(log, t) ==
    SelectSeq(log, LAMBDA x : ~(x <= t - RATE_LIMIT_WINDOW))

\* C2: a rejected checkRateLimit (retained count at or above the ceiling)
\* leaves requestLog equal to the pruned log with no new entry; an admitted
\* one leaves the pruned log with exactly one entry, the current timestamp,
\* appended.
C2_RejectedNotRecorded ==
    LET kept == Retained(lastCheck.before, lastCheck.at) IN
    /\ lastCheck.result = "rejected"
          => /\ Len(kept) >= MAX_REQUESTS_PER_WINDOW
             /\ requestLog = kept
    /\ lastCheck.result = "admitted"
          => /\ Len(kept) < MAX_REQUESTS_PER_WINDOW
             /\ requestLog = kept \o <<lastCheck.at>>

\* a call rejected at an instant later than the first retained timestamp
C2_Witness ==
    /\ lastCheck.result = "rejected"
    /\ Len(requestLog) = MAX_REQUESTS_PER_WINDOW
    /\ requestLog[1] < lastCheck.at

\* C3: after every checkRateLimit call, admitted or rejected, every
\* timestamp in requestLog is strictly later than that call's now - 60000,
\* and the retained timestamps are in their original order: they are the
\* tail of the log the call found, followed by the new entry if any.
C3_OnlyWindowRetained ==
    lastCheck.result # "none" =>
        /\ \A i \in DOMAIN requestLog :
               requestLog[i] > lastCheck.at - RATE_LIMIT_WINDOW
        /\ \E k \in 0..Len(lastCheck.before) :
               LET tail == SubSeq(lastCheck.before, k + 1,
                                  Len(lastCheck.before)) IN
               \/ requestLog = tail
               \/ requestLog = Append(tail, lastCheck.at)
        /\ \A i \in DOMAIN lastCheck.before :
               lastCheck.before[i] > lastCheck.at - RATE_LIMIT_WINDOW
                  => \E j \in DOMAIN requestLog :
                        requestLog[j] = lastCheck.before[i]

\* a call that found an entry exactly 60000 ms old and dropped it, keeping
\* later ones
C3_Witness ==
    /\ lastCheck.result = "admitted"
    /\ \E i \in DOMAIN lastCheck.before :
          lastCheck.before[i] = lastCheck.at - RATE_LIMIT_WINDOW
    /\ Len(requestLog) > 1
    /\ Len(requestLog) <= Len(lastCheck.before)

-----------------------------------------------------------------------------
(* Properties of secureFetch (SpecFetch)                                   *)

Settled == pc \in {"returned", "failed"}

\* the failures the contract lists: deadline, non-ok status, network error
Listed == {"Abort", "Http", "Network"}

\* C4: when checkRateLimit rejects, on the first attempt or on a retry,
\* secureFetch fails with the rate-limit error at that instant: no network
\* call follows the rejection and no backoff delay is waited after it,
\* whatever retry budget remains.
C4_RateLimitNeverRetried ==
    lastCheck.result = "rejected" =>
        /\ pc = "failed"
        /\ error = RateLimitError
        /\ now = lastCheck.at
        /\ netCalls = failures
        /\ Len(waitLog) = failures

\* a retry rejected by the rate limiter while retry budget remains
C4_Witness ==
    /\ lastCheck.result = "rejected"
    /\ pc = "failed"
    /\ failures >= 1
    /\ retries >= 1

\* C5: with retry budget R, attempts that fail only by deadline, non-ok
\* status or network error, and no rate-limit rejection: a call that
\* returned did so after F <= R failures, F retries and F + 1 network calls,
\* with the parsed body; a call that failed did so after exactly R + 1
\* network calls, all failed, and R retries.  Retries = min(R, F).
C5_RetriesAreMinBudgetFailures ==
    (seen \subseteq Listed /\ lastCheck.result # "rejected") =>
        /\ pc = "returned"
              => /\ failures <= budget
                 /\ Len(waitLog) = failures
                 /\ netCalls = failures + 1
                 /\ result = "parsed body"
        /\ pc = "failed"
              => /\ failures = budget + 1
                 /\ Len(waitLog) = budget
                 /\ netCalls = budget + 1
                 /\ result = "none"
        /\ pc \in {"fetching", "reading"}
              => /\ failures <= budget
                 /\ Len(waitLog) = failures
                 /\ netCalls = failures + 1
        /\ pc = "backoff"
              => /\ failures <= budget
                 /\ Len(waitLog) = failures - 1
                 /\ netCalls = failures

\* the default budget used up: three failures, then success on the fourth call
C5_Witness ==
    /\ pc = "returned"
    /\ budget = MAX_RETRIES
    /\ failures = MAX_RETRIES
    /\ netCalls = MAX_RETRIES + 1
    /\ seen = Listed

\* C6: for every retry budget R, the delay waited before the k-th retry is
\* 1000 * k ms, hence positive and larger than the delay before it.
C6_LinearBackoffAnyBudget ==
    pc = "backoff" =>
        /\ delay = RETRY_DELAY * (Len(waitLog) + 1)
        /\ delay > 0
        /\ \A i \in DOMAIN waitLog : waitLog[i] < delay

\* C7: a failure by deadline, non-ok status or network error is handled the
\* same way whichever it is: with budget left the call goes on to one retry
\* with the budget reduced by one (budget - retries counts the retries made);
\* with no budget left the call fails with that failure.
C7_ListedFailuresRetriedAlike ==
    /\ pc # "idle" => retries = budget - Len(waitLog)
    /\ (pc = "backoff" /\ error.kind \in Listed) => retries > 0
    /\ (pc = "failed" /\ error.kind \in Listed) => retries = 0

\* deadline, non-ok status and network error all met in one call, the last
\* failure a deadline with no budget left
C7_Witness ==
    /\ pc = "failed"
    /\ error = AbortError
    /\ budget = MAX_RETRIES
    /\ retries = 0
    /\ seen = Listed

\* C8 as stated: a call with budget R settles within 15000 * (1 + R) ms.
C8_SettlesWithinTimeoutTimesAttempts ==
    Settled => now - startedAt <= FETCH_TIMEOUT * (1 + budget)

\* C8, amended: a call with budget R settles within 15000 * (1 + R) ms plus
\* the backoff delays it waited plus the time it spent in response.json(),
\* which the deadline does not cover; with the default budget the backoff
\* delays add up to at most 6000 ms.
C8_SettlesWithinTimeoutsPlusBackoff ==
    /\ Settled
          => now - startedAt
                <= FETCH_TIMEOUT * (1 + budget) + SumSeq(waitLog) + bodyTime
    /\ budget = MAX_RETRIES
          => SumSeq(waitLog) <= RETRY_DELAY * (1 + 2 + 3)

\* every attempt ran to its deadline and every backoff was waited in full
C8_Witness ==
    /\ pc = "failed"
    /\ budget = MAX_RETRIES
    /\ seen = {"Abort"}
    /\ bodyTime = 0
    /\ now - startedAt
          = FETCH_TIMEOUT * (1 + MAX_RETRIES) + RETRY_DELAY * (1 + 2 + 3)

-----------------------------------------------------------------------------
(* Properties of api.createAlert (SpecAlert)                               *)

\* the value of member `name` in the body handed to fetch
Member(body, name) ==
    LET i == CHOOSE i \in DOMAIN body : body[i][1] = name IN body[i][2]

HasMember(body, name) == \E i \in DOMAIN body : body[i][1] = name

Submitted == apiCall.op = "createAlert" /\ netCalls >= 1

ScriptFloodNoBrackets ==
    <<"s","c","r","i","p","t","f","l","o","o","d","/","s","c","r","i","p","t">>

\* C9 as stated: createAlert with {disasterType: "<script>flood</script>",
\* region: "  Lagos  ", riskScore: 150} submits the body
\* {disasterType: "flood", region: "Lagos", riskScore: 100}.
C9_ScenarioSubmitsFlood ==
    (Submitted /\ apiCall.data = ScenarioAlert) =>
        request.body = << <<"disasterType", Str(Flood)>>,
                          <<"region", Str(Lagos)>>,
                          <<"riskScore", Num(100)>> >>

\* C9, amended: for that input the body submitted is
\* {disasterType: "scriptflood/script", region: "Lagos", riskScore: 100}:
\* the sanitizer removes the angle brackets and leaves the text of the tags,
\* the region is trimmed and the risk score is clamped.
C9_ScenarioSubmitsBracketsRemoved ==
    (Submitted /\ apiCall.data = ScenarioAlert) =>
        /\ request.method = "POST"
        /\ request.body = << <<"disasterType", Str(ScriptFloodNoBrackets)>>,
                             <<"region", Str(Lagos)>>,
                             <<"riskScore", Num(100)>> >>

\* the scenario's request has been handed to fetch
C9_Witness ==
    /\ Submitted
    /\ apiCall.data = ScenarioAlert
    /\ pc = "returned"

(* What a riskScore input denotes, read as a number the way Number() reads *)
(* it: an integer literal in decimal, with an exponent, or in hex.         *)

RECURSIVE Pow10(_)
Pow10(e) == IF e = 0 THEN 1 ELSE 10 * Pow10(e - 1)

AllDigits(s) == s # <<>> /\ \A i \in DOMAIN s : s[i] \in Range(DigitChars)

AllHexDigits(s) ==
    s # <<>> /\ \A i \in DOMAIN s : ToLowerChar(s[i]) \in Range(HexChars)

\* [ok, n]: whether the text is an integer literal, and the integer
LiteralValue(chars) ==
    LET str      == Trim(chars)
        signed   == str # <<>> /\ Head(str) \in {"+", "-"}
        sign     == IF str # <<>> /\ Head(str) = "-" THEN -1 ELSE 1
        unsigned == IF signed THEN Tail(str) ELSE str
        epos     == IF \E i \in DOMAIN unsigned : unsigned[i] = "e"
                    THEN CHOOSE i \in DOMAIN unsigned : unsigned[i] = "e"
                    ELSE 0
        mant     == SubSeq(unsigned, 1, epos - 1)
        expo     == Drop(unsigned, epos)
    IN  IF AllDigits(unsigned)
        THEN [ok |-> TRUE, n |-> sign * DigitsValue(unsigned, 10)]
        ELSE IF epos > 0 /\ AllDigits(mant) /\ AllDigits(expo)
        THEN [ok |-> TRUE,
              n |-> sign * DigitsValue(mant, 10) * Pow10(DigitsValue(expo, 10))]
        ELSE IF /\ ~signed
                /\ StartsWithIgnoreCase(unsigned, <<"0", "x">>)
                /\ AllHexDigits(Drop(unsigned, 2))
        THEN [ok |-> TRUE, n |-> DigitsValue(Drop(unsigned, 2), 16)]
        ELSE [ok |-> FALSE, n |-> 0]

\* the input is an integer, or a numeric string denoting one
IsInteger(v) ==
    \/ v.t = "number" /\ v.form \in {"int", "exp"}
    \/ v.t = "string" /\ LiteralValue(v.s).ok

\* that integer, clamped into 0..100 (d * 10^e with e >= 21 is above 100)
ClampedInteger(v) ==
    LET n == IF v.t = "string" THEN LiteralValue(v.s).n
             ELSE IF v.form = "exp" THEN RISK_MAX + 1 ELSE v.n
    IN  IF n > RISK_MAX THEN RISK_MAX ELSE IF n < RISK_MIN THEN RISK_MIN ELSE n

\* the input has no leading integer to parse
Unparseable(v) ==
    \/ v.t \in {"undefined", "null"}
    \/ v.t = "number" /\ v.form = "NaN"
    \/ v.t = "string" /\ ~LiteralValue(v.s).ok
          /\ (Trim(v.s) = <<>> \/ Head(Trim(v.s)) \notin Range(DigitChars))

\* C10: whatever riskScore createAlert is given, the riskScore in the body
\* is an integer in 0..100: an integer or numeric string above 100 gives
\* 100, one below 0 gives 0, one in range is unchanged, and a value that
\* does not parse gives 0.
C10_RiskScoreClamped ==
    Submitted =>
        LET v   == Prop(apiCall.data, "riskScore")
            out == Member(request.body, "riskScore")
        IN  /\ HasMember(request.body, "riskScore")
            /\ out.t = "number" /\ out.form = "int"
            /\ out.n \in RISK_MIN..RISK_MAX
            /\ IsInteger(v) => out.n = ClampedInteger(v)
            /\ Unparseable(v) => out.n = 0

\* the part of C10 that holds of every input: an integer in 0..100
C10_RiskScoreInRange ==
    Submitted =>
        /\ HasMember(request.body, "riskScore")
        /\ Member(request.body, "riskScore").form = "int"
        /\ Member(request.body, "riskScore").n \in RISK_MIN..RISK_MAX

-----------------------------------------------------------------------------
(* sanitizeInput on its own (SpecSanitize)                                 *)

NoAngleBracket(s) == \A i \in DOMAIN s : s[i] \notin {"<", ">"}

\* the text after the three removals, in the order the code applies them
Stripped(s) == RemoveHandlers(RemoveJavascript(RemoveAngleBrackets(s)))

\* no pattern of the sanitizer occurs in s
Plain(s) ==
    /\ NoAngleBracket(s)
    /\ \A i \in DOMAIN s :
          /\ ~StartsWithIgnoreCase(Drop(s, i - 1), JavascriptScheme)
          /\ HandlerMatch(Drop(s, i - 1)) = 0

\* C11: sanitizeInput returns every non-string argument unchanged; for a
\* string it returns the text with the angle brackets removed first, then
\* "javascript:" in any letter case, then on<word>= in any letter case, then
\* trimmed, and last cut to 1000 characters; the result holds no angle
\* bracket and is at most 1000 characters long.
C11_SanitizePipeline ==
    sanitizeCall.state = "returned" =>
        LET in  == sanitizeCall.input
            out == sanitizeCall.output
        IN  IF in.t # "string" THEN out = in
            ELSE /\ out.t = "string"
                 /\ NoAngleBracket(out.s)
                 /\ Len(out.s) <= SANITIZE_MAX_LENGTH
                 /\ out.s = Slice(Trim(Stripped(in.s)), SANITIZE_MAX_LENGTH)
                 \* the brackets go before the patterns are looked for
                 /\ out = sanitizeInput(Str(RemoveAngleBrackets(in.s)))
                 \* the cut comes after the trim
                 /\ Len(out.s) = Min(Len(Trim(Stripped(in.s))),
                                     SANITIZE_MAX_LENGTH)
                 /\ out.s # <<>> => ~IsSpace(out.s[1])
                 /\ Plain(in.s) => out.s = Slice(Trim(in.s),
                                                 SANITIZE_MAX_LENGTH)

\* a text longer than the limit whose brackets were removed, cut to the limit
C11_Witness ==
    /\ sanitizeCall.state = "returned"
    /\ sanitizeCall.input.t = "string"
    /\ ~NoAngleBracket(sanitizeCall.input.s)
    /\ Len(sanitizeCall.input.s) > SANITIZE_MAX_LENGTH
    /\ Len(sanitizeCall.output.s) = SANITIZE_MAX_LENGTH
    /\ sanitizeCall.output.s[SANITIZE_MAX_LENGTH] = "b"

-----------------------------------------------------------------------------
(* Properties of the api facade (SpecApi)                                  *)

\* C12: api.getBalance called with a value that is no address fails with
\* the invalid-address error before anything else happens: no fetch is
\* issued, checkRateLimit is not called, requestLog is as it was, and
\* nothing is retried.
C12_InvalidAddressFailsFirst ==
    apiCall.op = "getBalance" =>
        /\ (apiCall.threw = "Invalid address") <=> ~IsAddress(apiCall.address)
        /\ apiCall.threw = "Invalid address" =>
              /\ pc = "idle"
              /\ request = NoRequest
              /\ netCalls = 0
              /\ lastCheck = NoCheck
              /\ requestLog = admitted
              /\ requestLog \in {<<>>, Filled(MAX_REQUESTS_PER_WINDOW, 0)}
              /\ failures = 0
              /\ waitLog = <<>>

\* an invalid address met a rate limiter with room for the request
C12_Witness ==
    /\ apiCall.op = "getBalance"
    /\ apiCall.threw = "Invalid address"
    /\ apiCall.address.t = "string"
    /\ Len(apiCall.address.s) > 40
    /\ requestLog = <<>>
    /\ netCalls = 0

\* the request body carries, for each named property, the sanitized value
BodySanitized(data, names) ==
    \A name \in names :
        HasMember(request.body, name) =>
            Member(request.body, name) = sanitizeInput(Prop(data, name))

\* C13: every facade operation that receives user-supplied strings (the
\* parameters of getAlerts, the data of createAlert and of registerUser)
\* passes each through sanitizeInput, so the URL or body handed to fetch
\* carries the sanitized text only.
C13_FacadeSanitizesStrings ==
    netCalls >= 1 =>
        /\ apiCall.op = "createAlert" =>
              BodySanitized(apiCall.data, {"disasterType", "region"})
        /\ apiCall.op = "registerUser" =>
              BodySanitized(apiCall.data, {"walletAddress", "region",
                                           "countryCode", "userType"})
        /\ apiCall.op = "getAlerts" =>
              \A i \in DOMAIN apiCall.params :
                  request.query[i][2] =
                      UrlEncode(ToStringJS(sanitizeInput(apiCall.params[i][2])))

-----------------------------------------------------------------------------
(* Properties of the wallet and contract layer (SpecLayer)                 *)

\* a direct getContract call has come back
GetContractDone == task.state = "returned" /\ task.direct

\* the address and the interface list of the name are both there
Configured(name) ==
    ~Falsy(ConfigAddress(name)) /\ ~Falsy(ConfigAbi(name))

\* the not-configured failure, raised before the provider was resolved and
\* before any request was made
FailsNotConfiguredFirst ==
    /\ task.threw
    /\ task.failure = NotConfigured(task.name)
    /\ task.resolved = 0
    /\ task.requests = 0

Binding(name, withSigner) ==
    [t |-> "object", address |-> ConfigAddress(name), abi |-> ConfigAbi(name),
     runner |-> IF withSigner THEN "signer" ELSE "provider"]

HookDone == task.state = "returned" /\ ~task.direct

\* the messages that report a missing provider
NoProviderMessages ==
    {Text(NoProvider.message), Text("Please install MetaMask")}

\* C15: without an injected provider every operation of the layer (connect,
\* switchNetwork, every read and write of the four hooks) fails, and the
\* error it reports is the no-provider error and no other.
C15_OnlyNoProviderError ==
    ~hasProvider =>
        /\ HookDone =>
              /\ task.result = HookOps[task.op].sentinel
              /\ hookState[HookOps[task.op].hook].error \in NoProviderMessages
        /\ lastConnect # NoConnect =>
              /\ lastConnect.returned = "false"
              /\ lastConnect.error \in NoProviderMessages
        /\ switchCall.state = "returned" =>
              /\ switchCall.result = FALSE
              /\ walletError \in NoProviderMessages

\* the task is a write operation of a hook
Writing == task.state # "none" /\ ~task.direct /\ task.op \in WriteOps

\* submit, then the hash, then the confirmation, then the return
Lifecycle == <<"submitted", "confirmed", "returned">>

\* C16: every write operation of the hooks goes through submit -> hash
\* available -> await confirmation -> return: it returns a non-null result
\* only after the confirmation wait has completed, and that result is the
\* pair of the hash and the receipt of the submitted transaction.
C16_WritesReturnHashAndReceipt ==
    Writing =>
        /\ \E n \in 0..Len(Lifecycle) : task.events = SubSeq(Lifecycle, 1, n)
        /\ task.events # <<>> => task.hash = TxHash
        /\ (task.state = "returned" /\ task.result # Null) =>
              /\ task.events = Lifecycle
              /\ task.receipt = Receipt
              /\ task.result = [t |-> "object", txHash |-> task.hash,
                                receipt |-> task.receipt]

\* the value a failed operation of a hook returns
SentinelOf(op) == IF op = "getBalance" THEN Str(<<"0">>) ELSE Null

Failed == task.failure # [message |-> "none"]

\* the failures a hook operation can meet: instantiation, provider and
\* signer resolution, a call, the amount, submission, the confirmation wait
HookFailures ==
    {NotConfigured(n) : n \in AddressNames}
    \cup {NoProvider, UserRejected, CallFailed, InvalidAmount, Reverted}

\* C17: no public operation of the layer lets a failure escape: when
\* contract instantiation, provider or signer resolution, submission or the
\* confirmation wait fails, the operation stores the message of the failure
\* in the error slot of its hook and returns its sentinel (null; '0' for
\* getBalance; false for connect and switchNetwork) instead of throwing.
C17_FailuresStoredSentinelReturned ==
    /\ (HookDone /\ Failed) =>
          /\ ~task.threw
          /\ task.failure \in HookFailures
          /\ task.result = SentinelOf(task.op)
          /\ hookState[HookOps[task.op].hook] =
                [loading |-> FALSE, error |-> Text(task.failure.message)]
    /\ (HookDone /\ ~Failed) =>
          /\ task.result # SentinelOf(task.op)
          /\ hookState[HookOps[task.op].hook] =
                [loading |-> FALSE, error |-> Null]
    /\ lastConnect # NoConnect =>
          IF lastConnect.returned = "true" THEN lastConnect.error = Null
          ELSE /\ lastConnect.returned = "false"
               /\ walletError = lastConnect.error
               /\ lastConnect.error \in
                     {Text("Please install MetaMask"),
                      Text(UserRejected.message), Text(RequestPending.message)}
    /\ switchCall.state = "returned" =>
          IF switchCall.result THEN walletError = Null
          ELSE walletError \in
                  {Text("Unknown network"), Text(NoEthereumTypeError.message),
                   Text(UserRejected.message), Text(RequestPending.message)}

\* a write operation whose confirmation wait failed
C17_Witness ==
    /\ HookDone
    /\ task.op \in WriteOps
    /\ task.failure = Reverted
    /\ task.events = <<"submitted">>
    /\ task.result = Null
    /\ hookState[HookOps[task.op].hook].error = Text(Reverted.message)

-----------------------------------------------------------------------------
(* Properties of useWallet (SpecWallet)                                    *)

\* Connected: account is non-null; Connecting: isConnecting and no account;
\* Disconnected otherwise
WalletStateOf(acc, connecting) ==
    IF acc # Null THEN "Connected"
    ELSE IF connecting THEN "Connecting" ELSE "Disconnected"

WalletState == WalletStateOf(account, isConnecting)

\* the step changes the wallet state from one given state to another
Moves(from, to) ==
    /\ WalletState = from
    /\ WalletStateOf(account', isConnecting') = to

WalletMoves == WalletStateOf(account', isConnecting') # WalletState

\* the account is cleared: disconnect(), or accountsChanged with no account
Cleared == Disconnect \/ AccountsChanged(<<>>)

\* the mount-time query or an accountsChanged event reports the accounts
Reported(accounts) ==
    AccountsQueryResolves(accounts) \/ AccountsChanged(accounts)

C19_FailedConnectEndsDisconnected ==
    lastConnect.returned = "false" =>
        /\ ~lastConnect.isConnecting
        /\ lastConnect.account = Null
        /\ lastConnect.error # Null

\* the step is a connect call that fails with the message m
ConnectFails(m) ==
    \/ Connect /\ ~hasProvider /\ m = "Please install MetaMask"
    \/ \E e \in {UserRejected, RequestPending} :
          ConnectRejects(e) /\ m = e.message

\* C19, amended: whenever a connect request fails, connect returns false
\* with isConnecting false and the failure message in error, and it leaves
\* account as it was: a wallet that was Connecting ends Disconnected, and an
\* account set before or during the request stays.
C19_FailedConnectKeepsAccount ==
    [][\A m \in {"Please install MetaMask", UserRejected.message,
                 RequestPending.message} :
          ConnectFails(m) =>
              /\ lastConnect' = Returned("false", account, FALSE, Text(m))
              /\ ~isConnecting'
              /\ walletError' = Text(m)
              /\ account' = account
              /\ WalletState = "Connecting" =>
                    WalletStateOf(account', isConnecting') = "Disconnected"
      ]_vars

\* a connect request failed while an account was set
C19_Witness ==
    /\ lastConnect.returned = "false"
    /\ lastConnect.account # Null
    /\ account = lastConnect.account
    /\ ~isConnecting
    /\ walletError = Text(UserRejected.message)

\* the chain IDs of NETWORKS in hexadecimal
HexOf ==
    [polygon |-> <<"0", "x", "8", "9">>,
     amoy    |-> <<"0", "x", "1", "3", "8", "8", "2">>,
     hardhat |-> <<"0", "x", "7", "a", "6", "9">>]

\* the add-network request for the network, from its static configuration
AddRequestFor(id) ==
    [method |-> "wallet_addEthereumChain",
     params |-> [chainId           |-> HexOf[id],
                 chainName         |-> NETWORKS[id].name,
                 rpcUrls           |-> <<NETWORKS[id].rpcUrl>>,
                 nativeCurrency    |-> NETWORKS[id].currency,
                 blockExplorerUrls |-> IF id = "hardhat" THEN <<>>
                                       ELSE <<NETWORKS[id].explorer>>]]

AddRequests(sent) ==
    SelectSeq(sent, LAMBDA r : r.method = "wallet_addEthereumChain")

\* C20: when the switch request of switchNetwork fails with code 4902, one
\* add-network request is issued, built from the static configuration of
\* the network (chain ID in hex, name, RPC URL, currency, explorer);
\* switchNetwork returns true if it succeeds; if it fails, switchNetwork
\* returns false with the failure in error, and account, chainId and
\* isConnecting are unchanged.
C20_UnknownNetworkIsAddedOnce ==
    [][/\ SwitchRejects(UnrecognizedChain) =>
             /\ switchCall'.state = "adding"
             /\ AddRequests(switchCall'.sent)
                   = <<AddRequestFor(switchCall.networkId)>>
             /\ UNCHANGED <<account, chainId, isConnecting, walletError>>
       /\ switchCall.state = "adding" /\ switchCall'.state = "returned" =>
             /\ switchCall'.via = "add"
             /\ AddRequests(switchCall'.sent)
                   = <<AddRequestFor(switchCall.networkId)>>
             /\ UNCHANGED <<account, chainId, isConnecting>>
             /\ IF AddResolves
                THEN switchCall'.result /\ UNCHANGED walletError
                ELSE /\ ~switchCall'.result
                     /\ \E e \in {UserRejected, RequestPending} :
                           AddRejects(e) /\ walletError' = Text(e.message)
      ]_vars

\* the network was unknown to the provider and adding it failed, while an
\* account was connected
C20_Witness ==
    /\ switchCall.state = "returned"
    /\ switchCall.via = "add"
    /\ ~switchCall.result
    /\ Len(switchCall.sent) = 2
    /\ walletError = Text(UserRejected.message)
    /\ account # Null
    /\ chainId # Null

-----------------------------------------------------------------------------
(* C25.  Every fetch() that secureFetch issues, the first and each retry,  *)
(* comes right after a checkRateLimit() of its own that admitted the call  *)
(* and pushed one timestamp: the number of fetches issued equals the       *)
(* number of timestamps pushed since the call started, and a call with     *)
(* budget R pushes at most R + 1 of them.                                  *)

\* the timestamps pushed since the call under test started (the earlier
\* calls of InitialLogs were all admitted at instant 0)
SinceStart(hist) == SelectSeq(hist, LAMBDA t : t > 0)

C25_EveryFetchHasItsSlot ==
    /\ netCalls = Len(SinceStart(admitted))
    /\ netCalls <= budget + 1
    /\ pc = "fetching" =>
          /\ lastCheck.result = "admitted"
          /\ lastCheck.at = attemptStart
          /\ admitted # <<>>
          /\ admitted[Len(admitted)] = attemptStart

\* a call with a budget of two or more that used every slot it may use
C25_Witness ==
    /\ pc = "failed"
    /\ budget >= 2
    /\ netCalls = budget + 1
    /\ Len(SinceStart(admitted)) = budget + 1

-----------------------------------------------------------------------------
(* C27.  What sanitizeInput returns for a string holds no match of         *)
(* /javascript:/i and no match of /on\w+=/i, and sanitizeInput applied to  *)
(* it again returns it unchanged.                                          *)

NoResidue(s) == FirstScheme(s) = 0 /\ FirstHandler(s) = 0

C27_NoResidueIdempotent ==
    (sanitizeCall.state = "returned" /\ sanitizeCall.input.t = "string") =>
        /\ NoResidue(sanitizeCall.output.s)
        /\ sanitizeInput(sanitizeCall.output) = sanitizeCall.output

-----------------------------------------------------------------------------
(* C24.  In every write operation of the hooks the contract the            *)
(* transaction is sent to is bound to the signer.  Every read operation,   *)
(* and inside a write operation every decimals() lookup made on a contract *)
(* other than the one written to, runs on a binding made with the          *)
(* provider; a read operation never asks for a signer.                     *)

\* the calls of the operation made so far
Issued(t) == {i \in 1..t.at : Plan(t)[i].k \in {"read", "send"}}

\* the runner of the binding the call of step i is made on
RunnerOf(t, i) ==
    LET made == {b \in Range(t.bound) : b.step = Callee(Plan(t), i)} IN
    IF made = {} THEN "none" ELSE (CHOOSE b \in made : TRUE).runner

SendStep(plan) == CHOOSE i \in DOMAIN plan : plan[i].k = "send"

C24_SignerOnlyForWrites ==
    (task.state # "none" /\ ~task.direct) =>
        LET plan == Plan(task) IN
        IF task.op \in WriteOps
        THEN /\ \A i \in Issued(task) :
                   IF Callee(plan, i) = Callee(plan, SendStep(plan))
                   THEN RunnerOf(task, i) = "signer"
                   ELSE /\ plan[i].call = "decimals"
                        /\ RunnerOf(task, i) = "provider"
             /\ task.pending = "signer" =>
                   task.at = Callee(plan, SendStep(plan))
        ELSE /\ \A i \in Issued(task) : RunnerOf(task, i) = "provider"
             /\ \A b \in Range(task.bound) : b.runner = "provider"
             /\ task.pending # "signer"

\* stake has sent its transaction: the staking contract is bound to the
\* signer, the token contract it read decimals() from to the provider
C24_Witness ==
    /\ task.state = "returned"
    /\ ~task.direct
    /\ task.op = "stake"
    /\ task.result = TxHash
    /\ task.bound = <<[step |-> 1, name |-> "ClimateAlertStaking",
                       runner |-> "signer"],
                      [step |-> 2, name |-> "KAIToken",
                       runner |-> "provider"]>>

-----------------------------------------------------------------------------
(* C21.  Token amounts (SpecUnits).                                        *)

\* a decimal string with no more fractional digits than the decimal count
InDomain(amount, decimals) ==
    /\ IsDigits(WholePart(amount))
    /\ IsDigits(FractionPart(amount))
    /\ Len(WholePart(amount)) + Len(FractionPart(amount)) > 0
    /\ Len(FractionPart(amount)) <= decimals

RECURSIVE StripTrailingZeros(_)
StripTrailingZeros(s) ==
    IF s # <<>> /\ s[Len(s)] = "0"
    THEN StripTrailingZeros(SubSeq(s, 1, Len(s) - 1)) ELSE s

\* the shortest way to write the amount that still has a whole digit and,
\* with a decimal count above zero, a fractional digit
Canonical(amount, decimals) ==
    LET whole == BigIntDigits(WholePart(amount))
        fraction == StripTrailingZeros(FractionPart(amount))
    IN  IF decimals = 0 THEN whole
        ELSE whole \o <<".">>
                   \o (IF fraction = <<>> THEN <<"0">> ELSE fraction)

\* the digits of the amount with the point taken out, times ten to the
\* number of fractional digits the amount leaves unused
Scaled(amount, decimals) ==
    LET digits == BigIntDigits(WholePart(amount) \o FractionPart(amount)) IN
    IF digits = <<"0">> THEN digits
    ELSE digits \o Repeat("0", decimals - Len(FractionPart(amount)))

\* C21 as stated: for every decimal string with no more fractional digits
\* than the decimal count, converting it to the fixed-point integer and
\* that integer back to a string gives the original string.
C21_RoundTripIsIdentity ==
    (/\ unitsCall.state = "formatted"
     /\ InDomain(unitsCall.amount, unitsCall.decimals)) =>
        unitsCall.wei.back = unitsCall.amount

\* C21 amended: such a string is always converted, to exactly its value
\* times ten to the decimal count; converting back gives the canonical
\* spelling of the same value (no leading zeros before a first whole digit,
\* no trailing zeros behind a first fractional digit, and with a decimal
\* count of zero no point at all), which converts to the same integer
\* again and is the original string exactly when that is canonical.
C21_RoundTripIsCanonical ==
    (/\ unitsCall.state # "none"
     /\ InDomain(unitsCall.amount, unitsCall.decimals)) =>
        LET amount == unitsCall.amount
            decimals == unitsCall.decimals
            wei == unitsCall.wei
        IN  /\ wei.ok
            /\ wei.value = Scaled(amount, decimals)
            /\ Len(WholePart(amount)) + decimals <= 9 =>
                  DigitsValue(wei.value, 10) =
                      DigitsValue(WholePart(amount), 10) * Pow10(decimals)
                      + DigitsValue(FractionPart(amount), 10)
                        * Pow10(decimals - Len(FractionPart(amount)))
            /\ unitsCall.state = "formatted" =>
                  /\ wei.back = Canonical(amount, decimals)
                  /\ parseUnits(wei.back, decimals) =
                        [ok |-> TRUE, value |-> wei.value]
                  /\ (wei.back = amount) <=>
                        (amount = Canonical(amount, decimals))

\* "123.456" with 18 decimals is 123456000000000000000 and, back, "123.456"
C21_Witness ==
    /\ unitsCall.state = "formatted"
    /\ unitsCall.amount = <<"1", "2", "3", ".", "4", "5", "6">>
    /\ unitsCall.decimals = 18
    /\ unitsCall.wei.value = <<"1", "2", "3", "4", "5", "6">> \o Repeat("0", 15)
    /\ unitsCall.wei.back = unitsCall.amount

-----------------------------------------------------------------------------
(* C26.  With several operations of one hook instance in flight, in any    *)
(* interleaving, the loading flag of the hook is true exactly while at     *)
(* least one of its operations has not settled.                            *)

InFlight(h) == {op \in running : HookOps[op].hook = h}

C26_LoadingWhileAnyInFlight ==
    \A h \in Hooks : hookState[h].loading <=> (InFlight(h) # {})

-----------------------------------------------------------------------------
(* C28.  connectWallet on the Wallet page is all-or-nothing: whenever it   *)
(* has reported 'Failed to connect wallet' the connected flag is false and *)
(* no address is stored, and once the run is over connected is true only   *)
(* if it reported 'Wallet connected!'.                                     *)

C28_ConnectAllOrNothing ==
    /\ FailedToConnect \in Range(walletPage.notes) =>
          /\ walletPage.connected = FALSE
          /\ walletPage.address = Str(<<>>)
    /\ (walletPage.pc = "idle" /\ walletPage.connected) =>
          WalletConnected \in Range(walletPage.notes)

-----------------------------------------------------------------------------
(* C29.  handleSubmit on the Alerts page reports one outcome for a         *)
(* submission: 'Failed to create alert' is raised only when the request    *)
(* that creates the alert has failed, and never once 'Alert created        *)
(* successfully!' has been raised for the same submission.                 *)

C29_OneOutcomePerSubmission ==
    FailedToCreate \in Range(alertsPage.notes) =>
        /\ AlertCreated \notin Range(alertsPage.notes)
        /\ apiCall.op = "createAlert"
        /\ pc = "failed"

-----------------------------------------------------------------------------
(* Properties of the shared socket and provider, and of the Dashboard.     *)

\* BrowserProvider instances created so far by the call of getContract
ProvidersCreated == IF task.state = "none" THEN 0 ELSE task.resolved

\* C22: the socket and the wallet provider are process-wide singletons: at
\* most one socket and at most one wallet provider is ever created, however
\* often and by whomever they are asked for.
C22_OneSocketOneProvider ==
    /\ socket.instances <= 1
    /\ ProvidersCreated <= 1

\* C30: once every refresh run of the rendered Dashboard has completed, the
\* data shown is that of the run started last (when that run delivered
\* data): a run that completes late does not overwrite a newer one.
C30_LatestRefreshShown ==
    ( /\ dash.phase = "mounted"
      /\ dash.pending = {}
      /\ dash.started \in dash.resolved )
        => dash.shown = dash.started

====
